---- MODULE Spec2Model ----
(***************************************************************************)
(* Bill-of-Lading extractor (app.py): the text/OCR selection cascade of    *)
(* PDFProcessor, the table collaborator of TableParser, and the pattern    *)
(* driven field extraction of BOLDataExtractor.                            *)
(*                                                                         *)
(* A Python str is a sequence of one-character strings.                    *)
(***************************************************************************)
EXTENDS Integers, Sequences, FiniteSets, TLC

VARIABLES
    pc,                 \* position of the process_pdf / extract_tables run
    npages,             \* len(pdf.pages) of the document being processed
    page,               \* index of the page the running extractor is at
    text_acc,           \* local text_content of extract_text_pdfplumber
    ocr_acc,            \* local text_content of extract_text_ocr
    native_text,        \* text returned by extract_text_pdfplumber (app.py:223)
    text_success,       \* success flag returned by extract_text_pdfplumber
    native_conf,        \* confidence assessed on the native text (app.py:225)
    ocr_text,           \* text returned by extract_text_ocr (app.py:230)
    ocr_success,        \* success flag returned by extract_text_ocr
    result,             \* (text_content, extraction_method, confidence) of process_pdf
    text_calls,         \* number of extract_text_pdfplumber invocations
    ocr_calls,          \* number of extract_text_ocr invocations
    raised,             \* stages whose collaborator raised
    escaped,            \* TRUE iff an exception left one of the functions
    tables,             \* list returned by extract_tables
    inp,                \* argument text of the pure function under study
    field,              \* field_type argument of extract_field
    outp,               \* value returned by the pure function
    fpc,                \* "in" before the call, "out" after it
    catalog,            \* self.patterns of the shared FieldPatterns instance
    grids,              \* the table grids a caller holds: as passed in, and as they are now
    calls,              \* the running extract_all_fields calls: arguments, position, local bol_data
    ncalls,             \* number of calls made on the shared instances
    files,              \* the (pdf_file, filename) list handed to process_batch_pdfs
    cur,                \* index of the file process_batch_pdfs is at
    bpc,                \* position of process_single_pdf for that file
    bol_data,           \* the record process_single_pdf holds
    results,            \* the results list of process_batch_pdfs
    faults,             \* per file: where an exception was raised, and its text
    ocr_enabled         \* the 'Enable OCR Fallback' checkbox as render_sidebar returns it

vars == <<pc, npages, page, text_acc, ocr_acc, native_text, text_success,
          native_conf, ocr_text, ocr_success, result, text_calls, ocr_calls,
          raised, escaped, tables, inp, field, outp, fpc, catalog, grids,
          calls, ncalls, files, cur, bpc, bol_data, results, faults,
          ocr_enabled>>

pdfvars == <<pc, npages, page, text_acc, ocr_acc, native_text, text_success,
             native_conf, ocr_text, ocr_success, result, text_calls, ocr_calls,
             raised, escaped, tables>>

fnvars == <<inp, field, outp, fpc>>

appvars == <<catalog, grids, calls, ncalls, files, cur, bpc, bol_data, results,
             faults, ocr_enabled>>

(***************************************************************************)
(* Bounds of the model                                                     *)
(***************************************************************************)
MaxPages == 2

\* longest raw fragment handed to clean_field_data
MaxCleanLen == 4

\* most labelled lines in a text handed to extract_field
MaxSegs == 3

(***************************************************************************)
(* Characters and strings                                                  *)
(***************************************************************************)
NL == "\n"

LowerSeq == <<"a","b","c","d","e","f","g","h","i","j","k","l","m",
              "n","o","p","q","r","s","t","u","v","w","x","y","z">>

UpperSeq == <<"A","B","C","D","E","F","G","H","I","J","K","L","M",
              "N","O","P","Q","R","S","T","U","V","W","X","Y","Z">>

Lower == {LowerSeq[i] : i \in 1..26}

Upper == {UpperSeq[i] : i \in 1..26}

Digit == {"0","1","2","3","4","5","6","7","8","9"}

\* str.isspace() / regex \s
Space == {" ", "\n", "\t"}

Punct == {":", "-", ".", ",", "/", "#"}

Char == Lower \cup Upper \cup Digit \cup Space \cup Punct

\* str.upper() on one character
UpperChar(c) ==
    IF c \in Lower THEN UpperSeq[CHOOSE i \in 1..26 : LowerSeq[i] = c] ELSE c

\* str.lower() on one character
LowerChar(c) ==
    IF c \in Upper THEN LowerSeq[CHOOSE i \in 1..26 : UpperSeq[i] = c] ELSE c

\* str.upper()
StrUpper(s) == [i \in 1..Len(s) |-> UpperChar(s[i])]

\* c * n
Rep(c, n) == [i \in 1..n |-> c]

\* s[a:b] with 0-based, end-exclusive Python indices, 0 <= a <= b <= len(s)
Slice(s, a, b) == [i \in 1..(b - a) |-> s[a + i]]

\* number of leading whitespace characters
LeadWs(s) ==
    IF \A i \in 1..Len(s) : s[i] \in Space THEN Len(s)
    ELSE (CHOOSE i \in 1..Len(s) :
             s[i] \notin Space /\ \A j \in 1..(i - 1) : s[j] \in Space) - 1

\* number of trailing whitespace characters
TrailWs(s) ==
    IF \A i \in 1..Len(s) : s[i] \in Space THEN Len(s)
    ELSE Len(s) - (CHOOSE i \in 1..Len(s) :
             s[i] \notin Space /\ \A j \in (i + 1)..Len(s) : s[j] \in Space)

\* str.strip()
Strip(s) ==
    IF \A i \in 1..Len(s) : s[i] \in Space THEN <<>>
    ELSE Slice(s, LeadWs(s), Len(s) - TrailWs(s))

\* sub in s
Contains(s, sub) ==
    \E a \in 0..(Len(s) - Len(sub)) :
        \A i \in 1..Len(sub) : s[a + i] = sub[i]

\* s.count(c) for a one-character c
Count(s, c) == Cardinality({i \in 1..Len(s) : s[i] = c})

(***************************************************************************)
(* Regular expressions as re.search runs them: a pattern is a sequence of  *)
(* nodes, matched left to right with backtracking.  The patterns are       *)
(* compiled with re.IGNORECASE | re.MULTILINE | re.DOTALL.                 *)
(***************************************************************************)
\* a character class repeated lo..hi times (hi ignored when inf), greedy or lazy
Cls(set, lo, hi, inf, lazy) ==
    [t |-> "cls", set |-> set, lo |-> lo, hi |-> hi, inf |-> inf,
     lazy |-> lazy, alts |-> <<>>, str |-> <<>>]

\* (?:a|b|...)
Alt(alts) ==
    [t |-> "alt", set |-> {}, lo |-> 0, hi |-> 0, inf |-> FALSE,
     lazy |-> FALSE, alts |-> alts, str |-> <<>>]

\* (?=...)
Look(nodes) ==
    [t |-> "look", set |-> {}, lo |-> 0, hi |-> 0, inf |-> FALSE,
     lazy |-> FALSE, alts |-> <<nodes>>, str |-> <<>>]

\* the opening and closing parenthesis of group 1, and "$"
Mark(t) ==
    [t |-> t, set |-> {}, lo |-> 0, hi |-> 0, inf |-> FALSE,
     lazy |-> FALSE, alts |-> <<>>, str |-> <<>>]

\* a literal under re.IGNORECASE: per position, the two cases of the letter
Lit(str) ==
    <<[t |-> "lit", set |-> {}, lo |-> 0, hi |-> 0, inf |-> FALSE,
       lazy |-> FALSE, alts |-> <<>>,
       str |-> [j \in 1..Len(str) |-> {UpperChar(str[j]), LowerChar(str[j])}]]>>

\* \s*
WsStar == Cls(Space, 0, 0, TRUE, FALSE)

\* c?
Opt(c) == Cls({c}, 0, 1, FALSE, FALSE)

\* [...]+
Plus(set) == Cls(set, 1, 0, TRUE, FALSE)

\* .*?  under re.DOTALL
LazyAny == Cls(Char, 0, 0, TRUE, TRUE)

\* \n
NlNode == Cls({NL}, 1, 1, FALSE, FALSE)

(***************************************************************************)
(* FieldPatterns: the pattern lists, in list order                         *)
(***************************************************************************)
\* \.?\s*:?\s*  closing every label
LabelTail == <<Opt("."), WsStar, Opt(":"), WsStar>>

\* ( ... )
Capture(nodes) == <<Mark("open")>> \o nodes \o <<Mark("close")>>

\* [A-Z0-9\-]  under re.IGNORECASE
AlnumDash == Upper \cup Lower \cup Digit \cup {"-"}

\* [^\n]
NotNl == Char \ {NL}

\* [0-9,.\s]
NumChars == Digit \cup {",", "."} \cup Space

\* (?:No|Number|#)
NoNumberHash == Alt(<<Lit(<<"N","o">>), Lit(<<"N","u","m","b","e","r">>), Lit(<<"#">>)>>)

\* (?:No|Number)
NoNumber == Alt(<<Lit(<<"N","o">>), Lit(<<"N","u","m","b","e","r">>)>>)

\* label\s*(?:No|Number|#)\.?\s*:?\s*([A-Z0-9\-]+)
NumberPattern(label, word) ==
    label \o <<WsStar, word>> \o LabelTail \o Capture(<<Plus(AlnumDash)>>)

\* label\.?\s*:?\s*(.*?)(?=\n\s*(?:stop|...|\n\n))
BlockPattern(label, stops) ==
    label \o LabelTail \o Capture(<<LazyAny>>)
        \o <<Look(<<NlNode, WsStar, Alt(stops \o << <<NlNode, NlNode>> >>)>>)>>

\* label\.?\s*:?\s*([^\n]+)
LinePattern(label) == label \o LabelTail \o Capture(<<Plus(NotNl)>>)

\* label\.?\s*:?\s*([A-Z0-9\-]+)
CodePattern(label) == label \o LabelTail \o Capture(<<Plus(AlnumDash)>>)

\* label\.?\s*:?\s*(PREPAID|COLLECT|PAYABLE)
TermsPattern(label) ==
    label \o LabelTail
        \o Capture(<<Alt(<<Lit(<<"P","R","E","P","A","I","D">>), Lit(<<"C","O","L","L","E","C","T">>), Lit(<<"P","A","Y","A","B","L","E">>)>>)>>)

\* (?:Jan|Feb|...|Dec)[a-z]*
MonthName ==
    <<Alt(<<Lit(<<"J","a","n">>), Lit(<<"F","e","b">>), Lit(<<"M","a","r">>), Lit(<<"A","p","r">>), Lit(<<"M","a","y">>),
            Lit(<<"J","u","n">>), Lit(<<"J","u","l">>), Lit(<<"A","u","g">>), Lit(<<"S","e","p">>), Lit(<<"O","c","t">>),
            Lit(<<"N","o","v">>), Lit(<<"D","e","c">>)>>),
      Cls(Upper \cup Lower, 0, 0, TRUE, FALSE)>>

\* \d{lo,hi}
Digits(lo, hi) == Cls(Digit, lo, hi, FALSE, FALSE)

\* \s+
WsPlus == Cls(Space, 1, 0, TRUE, FALSE)

\* label\.?\s*:?\s*([0-9,.\s]+(?:KG|LBS|MT|TON))
WeightPattern(label) ==
    label \o LabelTail
        \o Capture(<<Plus(NumChars),
                     Alt(<<Lit(<<"K","G">>), Lit(<<"L","B","S">>), Lit(<<"M","T">>), Lit(<<"T","O","N">>)>>)>>)

\* label\.?\s*:?\s*([0-9,.\s]+)
QuantityPattern(label) == label \o LabelTail \o Capture(<<Plus(NumChars)>>)

patterns ==
    [bol_number |-> <<
        NumberPattern(Lit(<<"B","/","L">>), NoNumberHash),
        NumberPattern(Lit(<<"B","O","L">>), NoNumberHash),
        NumberPattern(Lit(<<"B","i","l","l">>) \o <<WsStar>> \o Lit(<<"o","f">>) \o <<WsStar>>
                          \o Lit(<<"L","a","d","i","n","g">>), NoNumberHash),
        NumberPattern(Lit(<<"D","o","c","u","m","e","n","t">>), NoNumber) >>,
     shipper |-> <<
        BlockPattern(Lit(<<"S","H","I","P","P","E","R">>), <<Lit(<<"C","O","N","S","I","G","N","E","E">>), Lit(<<"C","o","n","s","i","g","n","e","e">>)>>),
        BlockPattern(Lit(<<"S","h","i","p","p","e","r">>), <<Lit(<<"C","O","N","S","I","G","N","E","E">>), Lit(<<"C","o","n","s","i","g","n","e","e">>)>>),
        BlockPattern(Lit(<<"F","R","O","M">>), <<Lit(<<"T","O">>), Lit(<<"C","O","N","S","I","G","N","E","E">>)>>) >>,
     consignee |-> <<
        BlockPattern(Lit(<<"C","O","N","S","I","G","N","E","E">>),
                     <<Lit(<<"N","O","T","I","F","Y">>), Lit(<<"N","o","t","i","f","y">>), Lit(<<"V","E","S","S","E","L">>)>>),
        BlockPattern(Lit(<<"C","o","n","s","i","g","n","e","e">>),
                     <<Lit(<<"N","O","T","I","F","Y">>), Lit(<<"N","o","t","i","f","y">>), Lit(<<"V","E","S","S","E","L">>)>>),
        BlockPattern(Lit(<<"T","O">>),
                     <<Lit(<<"N","O","T","I","F","Y">>), Lit(<<"N","o","t","i","f","y">>), Lit(<<"V","E","S","S","E","L">>)>>) >>,
     notify_party |-> <<
        BlockPattern(Lit(<<"N","O","T","I","F","Y">>) \o <<WsStar>> \o Lit(<<"P","A","R","T","Y">>),
                     <<Lit(<<"V","E","S","S","E","L">>), Lit(<<"P","O","R","T">>), Lit(<<"G","O","O","D","S">>)>>),
        BlockPattern(Lit(<<"N","o","t","i","f","y">>) \o <<WsStar>> \o Lit(<<"P","a","r","t","y">>),
                     <<Lit(<<"V","E","S","S","E","L">>), Lit(<<"P","O","R","T">>), Lit(<<"G","O","O","D","S">>)>>),
        BlockPattern(Lit(<<"A","L","S","O">>) \o <<WsStar>> \o Lit(<<"N","O","T","I","F","Y">>),
                     <<Lit(<<"V","E","S","S","E","L">>), Lit(<<"P","O","R","T">>), Lit(<<"G","O","O","D","S">>)>>) >>,
     vessel |-> <<
        LinePattern(Lit(<<"V","E","S","S","E","L">>)),
        LinePattern(Lit(<<"V","e","s","s","e","l">>)),
        LinePattern(Lit(<<"S","H","I","P">>) \o <<WsStar>> \o Lit(<<"N","A","M","E">>)) >>,
     voyage |-> <<
        CodePattern(Lit(<<"V","O","Y","A","G","E">>)),
        CodePattern(Lit(<<"V","o","y","a","g","e">>)),
        CodePattern(Lit(<<"V","O","Y">>)) >>,
     port_of_load |-> <<
        LinePattern(Lit(<<"P","O","R","T">>) \o <<WsStar>> \o Lit(<<"O","F">>) \o <<WsStar>>
                        \o <<Alt(<<Lit(<<"L","O","A","D","I","N","G">>), Lit(<<"L","O","A","D">>)>>)>>),
        LinePattern(Lit(<<"P","o","r","t">>) \o <<WsStar>> \o Lit(<<"o","f">>) \o <<WsStar>>
                        \o <<Alt(<<Lit(<<"L","o","a","d","i","n","g">>), Lit(<<"L","o","a","d">>)>>)>>),
        LinePattern(Lit(<<"L","O","A","D">>) \o <<WsStar>> \o Lit(<<"P","O","R","T">>)) >>,
     port_of_discharge |-> <<
        LinePattern(Lit(<<"P","O","R","T">>) \o <<WsStar>> \o Lit(<<"O","F">>) \o <<WsStar>>
                        \o <<Alt(<<Lit(<<"D","I","S","C","H","A","R","G","E">>), Lit(<<"D","E","S","T">>)>>)>>),
        LinePattern(Lit(<<"P","o","r","t">>) \o <<WsStar>> \o Lit(<<"o","f">>) \o <<WsStar>>
                        \o <<Alt(<<Lit(<<"D","i","s","c","h","a","r","g","e">>), Lit(<<"D","e","s","t">>)>>)>>),
        LinePattern(Lit(<<"D","I","S","C","H","A","R","G","E">>) \o <<WsStar>> \o Lit(<<"P","O","R","T">>)) >>,
     freight_terms |-> <<
        TermsPattern(Lit(<<"F","R","E","I","G","H","T">>)),
        TermsPattern(Lit(<<"F","r","e","i","g","h","t">>)),
        TermsPattern(Lit(<<"T","E","R","M","S">>)) >>,
     date_patterns |-> <<
        Capture(<<Digits(1, 2), Cls({"/", "-"}, 1, 1, FALSE, FALSE),
                  Digits(1, 2), Cls({"/", "-"}, 1, 1, FALSE, FALSE),
                  Digits(2, 4)>>),
        Capture(<<Digits(1, 2), WsPlus>> \o MonthName
                    \o <<WsPlus, Digits(2, 4)>>),
        Capture(MonthName \o <<WsPlus, Digits(1, 2), Opt(","), WsPlus,
                               Digits(2, 4)>>) >>,
     weight_patterns |-> <<
        WeightPattern(Lit(<<"G","R","O","S","S">>) \o <<WsStar>> \o Lit(<<"W","E","I","G","H","T">>)),
        WeightPattern(Lit(<<"N","E","T">>) \o <<WsStar>> \o Lit(<<"W","E","I","G","H","T">>)),
        WeightPattern(Lit(<<"W","E","I","G","H","T">>)) >>,
     quantity_patterns |-> <<
        QuantityPattern(Lit(<<"P","A","C","K","A","G","E","S">>)),
        QuantityPattern(Lit(<<"Q","U","A","N","T","I","T","Y">>)),
        QuantityPattern(Lit(<<"Q","T","Y">>)) >>]

(***************************************************************************)
(* PDFProcessor                                                            *)
(***************************************************************************)
min_text_threshold == 100

QualityShort == 50

QualityLines == 5

Keywords == { <<"S","H","I","P","P","E","R">>,
              <<"C","O","N","S","I","G","N","E","E">>,
              <<"V","E","S","S","E","L">>,
              <<"B","/","L">>,
              <<"B","O","L">> }

has_structured_fields(text) == \E k \in Keywords : Contains(StrUpper(text), k)

has_addresses(text) == Count(text, NL) > QualityLines

\* a variant that also treats a text of exactly 50 characters as short
assess_text_quality_le(text) ==
    IF Len(Strip(text)) <= QualityShort THEN "low"
    ELSE IF has_structured_fields(text) /\ has_addresses(text) THEN "high"
    ELSE IF has_structured_fields(text) \/ has_addresses(text) THEN "medium"
    ELSE "low"

assess_text_quality(text) ==
    IF Len(Strip(text)) < QualityShort THEN "low"
    ELSE IF has_structured_fields(text) /\ has_addresses(text) THEN "high"
    ELSE IF has_structured_fields(text) \/ has_addresses(text) THEN "medium"
    ELSE "low"

\* a variant that misses the boundary: ">" in place of ">="
SufficientStrict(text) == Len(Strip(text)) > min_text_threshold

\* success = len(text_content.strip()) >= self.min_text_threshold
Sufficient(text) == Len(Strip(text)) >= min_text_threshold

\* a variant that hands back the pages read before the failure
text_except_keep(accumulated) ==
    [text |-> accumulated, success |-> FALSE, escapes |-> FALSE]

\* except Exception: return "", False   (extract_text_pdfplumber)
text_except(accumulated) == [text |-> <<>>, success |-> FALSE, escapes |-> FALSE]

\* except Exception: return "", False   (extract_text_ocr)
ocr_except(accumulated) == [text |-> <<>>, success |-> FALSE, escapes |-> FALSE]

\* except Exception: return []   (extract_tables)
tables_except(partial) == [tables |-> <<>>, escapes |-> FALSE]

\* a variant that also falls back on a "medium" native text
NeedsOcrUnlessHigh(success, conf) == ~success \/ conf # "high"

\* a variant that goes to OCR only when the native extraction was unsuccessful
NeedsOcrOnFailure(success, conf) == ~success

\* the condition under which process_pdf falls back to OCR
NeedsOcr(success, conf) == ~success \/ conf = "low"

\* a variant that keeps the confidence of the native text when OCR is adopted
AfterOcrStale(text_content, conf, o_text, o_success) ==
    IF o_success
    THEN <<o_text, "ocr", conf>>
    ELSE IF text_content # <<>>
         THEN <<text_content, "text_fallback", conf>>
         ELSE <<text_content, "text", conf>>

\* a variant that re-assesses the confidence on the rejected OCR text
AfterOcrReassess(text_content, conf, o_text, o_success) ==
    IF o_success
    THEN <<o_text, "ocr", assess_text_quality(o_text)>>
    ELSE IF text_content # <<>>
         THEN <<text_content, "text_fallback", assess_text_quality(o_text)>>
         ELSE <<text_content, "text", conf>>

\* the branch of process_pdf after extract_text_ocr returned
AfterOcr(text_content, conf, o_text, o_success) ==
    IF o_success
    THEN <<o_text, "ocr", assess_text_quality(o_text)>>
    ELSE IF text_content # <<>>
         THEN <<text_content, "text_fallback", conf>>
         ELSE <<text_content, "text", conf>>

(***************************************************************************)
(* What the collaborators can hand back for one page                       *)
(***************************************************************************)
BOL == <<"B","O","L">>

\* a blank page text: truthy, but nothing after strip()
WsPage == <<" ">>

\* 49 characters with a keyword
Kw49 == BOL \o Rep("x", 46)

\* 50 characters with a keyword
Kw50 == BOL \o Rep("x", 47)

\* 49 characters, no keyword, no newline
Plain49 == Rep("x", 49)

\* 100 characters, no keyword, no newline
Plain100 == Rep("x", 100)

\* 100 characters with a keyword and 5 newlines
Rich100 == BOL \o <<NL,"x",NL,"x",NL,"x",NL,"x",NL,"x">> \o Rep("x", 87)

\* page.extract_text(): None or "" ("none"), a text, or an exception
NativePageOutcomes ==
    {[k |-> "raise", t |-> <<>>], [k |-> "none", t |-> <<>>]}
    \cup {[k |-> "text", t |-> t] : t \in {WsPage, Kw49, Kw50, Plain100, Rich100}}

\* page.to_image() + pytesseract.image_to_string(): a str, or an exception
OcrPageOutcomes ==
    {[k |-> "raise", t |-> <<>>]}
    \cup {[k |-> "text", t |-> t] : t \in {<<>>, Plain49, Kw50, Plain100, Rich100}}

\* a cell of a grid that holds a str
StrCell(s) == [k |-> "str", v |-> s, n |-> 0]

\* a cell of a grid that holds an int
IntCell(n) == [k |-> "int", v |-> <<>>, n |-> n]

\* a missing cell of a grid (NaN / None)
NaN == [k |-> "nan", v |-> <<>>, n |-> 0]

\* one extracted grid: its named columns, each with its cells
Table1 == <<[name |-> <<"G","O","O","D","S">>, cells |-> <<StrCell(<<"T","E","A">>)>>]>>

\* tabula.read_pdf(): a list of grids, or an exception
TableOutcomes ==
    {[k |-> "raise", v |-> <<>>], [k |-> "list", v |-> <<>>],
     [k |-> "list", v |-> <<Table1>>]}

NoResult == <<>>

(***************************************************************************)
(* process_pdf, step by step                                               *)
(***************************************************************************)
\* app.py:223-239 once extract_text_pdfplumber has handed back r
TextReturn(r) ==
    IF r.escapes
    THEN /\ escaped' = TRUE
         /\ pc' = "crashed"
         /\ UNCHANGED <<native_text, text_success, native_conf, result>>
    ELSE /\ native_text' = r.text
         /\ text_success' = r.success
         /\ native_conf' = assess_text_quality(r.text)
         /\ UNCHANGED escaped
         /\ IF NeedsOcr(r.success, assess_text_quality(r.text))
            THEN pc' = "ocr_open" /\ UNCHANGED result
            ELSE /\ pc' = "returned"
                 /\ result' = <<r.text, "text", assess_text_quality(r.text)>>

\* app.py:230-239 once extract_text_ocr has handed back r
OcrReturn(r) ==
    IF r.escapes
    THEN /\ escaped' = TRUE
         /\ pc' = "crashed"
         /\ UNCHANGED <<ocr_text, ocr_success, result>>
    ELSE /\ ocr_text' = r.text
         /\ ocr_success' = r.success
         /\ result' = AfterOcr(native_text, native_conf, r.text, r.success)
         /\ pc' = "returned"
         /\ UNCHANGED escaped

\* process_pdf calls extract_text_pdfplumber; pdfplumber.open succeeds or raises
TextOpen ==
    /\ pc = "start"
    /\ text_calls' = text_calls + 1
    /\ text_acc' = <<>>
    /\ \E ok \in BOOLEAN :
        IF ok
        THEN /\ pc' = "text_page"
             /\ page' = 1
             /\ UNCHANGED <<native_text, text_success, native_conf, result,
                            escaped, raised>>
        ELSE /\ raised' = raised \cup {"text"}
             /\ TextReturn(text_except(<<>>))
             /\ UNCHANGED page
    /\ UNCHANGED <<npages, ocr_acc, ocr_text, ocr_success, ocr_calls, tables>>
    /\ UNCHANGED fnvars
    /\ UNCHANGED appvars

\* one iteration of "for page in pdf.pages" in extract_text_pdfplumber
TextPage ==
    /\ pc = "text_page"
    /\ page <= npages
    /\ \E o \in NativePageOutcomes :
        IF o.k = "raise"
        THEN /\ raised' = raised \cup {"text"}
             /\ TextReturn(text_except(text_acc))
             /\ UNCHANGED <<text_acc, page>>
        ELSE /\ text_acc' = IF o.k = "text" THEN text_acc \o o.t \o <<NL>>
                            ELSE text_acc
             /\ page' = page + 1
             /\ UNCHANGED <<pc, native_text, text_success, native_conf, result,
                            escaped, raised>>
    /\ UNCHANGED <<npages, ocr_acc, ocr_text, ocr_success, text_calls,
                   ocr_calls, tables>>
    /\ UNCHANGED fnvars
    /\ UNCHANGED appvars

\* the loop of extract_text_pdfplumber is over: return text_content, success
TextDone ==
    /\ pc = "text_page"
    /\ page > npages
    /\ TextReturn([text |-> text_acc, success |-> Sufficient(text_acc),
                   escapes |-> FALSE])
    /\ UNCHANGED <<npages, page, text_acc, ocr_acc, ocr_text, ocr_success,
                   text_calls, ocr_calls, raised, tables>>
    /\ UNCHANGED fnvars
    /\ UNCHANGED appvars

\* process_pdf calls extract_text_ocr; import fitz / pdfplumber.open may raise
OcrOpen ==
    /\ pc = "ocr_open"
    /\ ocr_calls' = ocr_calls + 1
    /\ ocr_acc' = <<>>
    /\ \E ok \in BOOLEAN :
        IF ok
        THEN /\ pc' = "ocr_page"
             /\ page' = 1
             /\ UNCHANGED <<ocr_text, ocr_success, result, escaped, raised>>
        ELSE /\ raised' = raised \cup {"ocr"}
             /\ OcrReturn(ocr_except(<<>>))
             /\ UNCHANGED page
    /\ UNCHANGED <<npages, text_acc, native_text, text_success, native_conf,
                   text_calls, tables>>
    /\ UNCHANGED fnvars
    /\ UNCHANGED appvars

\* one iteration of "for i, page in enumerate(pdf.pages)" in extract_text_ocr
OcrPage ==
    /\ pc = "ocr_page"
    /\ page <= npages
    /\ \E o \in OcrPageOutcomes :
        IF o.k = "raise"
        THEN /\ raised' = raised \cup {"ocr"}
             /\ OcrReturn(ocr_except(ocr_acc))
             /\ UNCHANGED <<ocr_acc, page>>
        ELSE /\ ocr_acc' = ocr_acc \o o.t \o <<NL>>
             /\ page' = page + 1
             /\ UNCHANGED <<pc, ocr_text, ocr_success, result, escaped, raised>>
    /\ UNCHANGED <<npages, text_acc, native_text, text_success, native_conf,
                   text_calls, ocr_calls, tables>>
    /\ UNCHANGED fnvars
    /\ UNCHANGED appvars

\* the loop of extract_text_ocr is over: return text_content, success
OcrDone ==
    /\ pc = "ocr_page"
    /\ page > npages
    /\ OcrReturn([text |-> ocr_acc, success |-> Sufficient(ocr_acc),
                  escapes |-> FALSE])
    /\ UNCHANGED <<npages, page, text_acc, ocr_acc, native_text, text_success,
                   native_conf, text_calls, ocr_calls, raised, tables>>
    /\ UNCHANGED fnvars
    /\ UNCHANGED appvars

\* TableParser.extract_tables, called once process_pdf has returned
extract_tables ==
    /\ pc = "returned"
    /\ \E o \in TableOutcomes :
        IF o.k = "raise"
        THEN /\ raised' = raised \cup {"tables"}
             /\ tables' = tables_except(o.v).tables
             /\ escaped' = tables_except(o.v).escapes
             /\ pc' = IF tables_except(o.v).escapes THEN "crashed" ELSE "done"
        ELSE /\ tables' = o.v
             /\ pc' = "done"
             /\ UNCHANGED <<raised, escaped>>
    /\ UNCHANGED <<npages, page, text_acc, ocr_acc, native_text, text_success,
                   native_conf, ocr_text, ocr_success, result, text_calls,
                   ocr_calls>>
    /\ UNCHANGED fnvars
    /\ UNCHANGED appvars

FnIdle ==
    /\ inp = <<>>
    /\ field = "none"
    /\ outp = <<>>
    /\ fpc = "none"

\* nothing is running on the instances BOLOCRApp.__init__ has constructed
AppIdle ==
    /\ catalog = patterns
    /\ grids = <<>>
    /\ calls = <<>>
    /\ ncalls = 0
    /\ files = <<>>
    /\ cur = 0
    /\ bpc = "none"
    /\ bol_data = <<>>
    /\ results = <<>>
    /\ faults = <<>>

PdfIdle ==
    /\ pc = "none"
    /\ npages = 0
    /\ page = 0
    /\ text_acc = <<>>
    /\ ocr_acc = <<>>
    /\ native_text = <<>>
    /\ text_success = FALSE
    /\ native_conf = "none"
    /\ ocr_text = <<>>
    /\ ocr_success = FALSE
    /\ result = NoResult
    /\ text_calls = 0
    /\ ocr_calls = 0
    /\ raised = {}
    /\ escaped = FALSE
    /\ tables = <<>>

Init ==
    /\ pc = "start"
    /\ npages \in 0..MaxPages
    /\ page = 0
    /\ text_acc = <<>>
    /\ ocr_acc = <<>>
    /\ native_text = <<>>
    /\ text_success = FALSE
    /\ native_conf = "none"
    /\ ocr_text = <<>>
    /\ ocr_success = FALSE
    /\ result = NoResult
    /\ text_calls = 0
    /\ ocr_calls = 0
    /\ raised = {}
    /\ escaped = FALSE
    /\ tables = <<>>
    /\ FnIdle
    /\ AppIdle
    /\ ocr_enabled \in BOOLEAN

Next ==
    \/ TextOpen
    \/ TextPage
    \/ TextDone
    \/ OcrOpen
    \/ OcrPage
    \/ OcrDone
    \/ extract_tables

Spec == Init /\ [][Next]_vars

(***************************************************************************)
(* Properties of process_pdf and of the collaborator wrappers              *)
(***************************************************************************)
Returned == pc \in {"returned", "done"}

TrimLen(s) == Len(s) - LeadWs(s) - (IF LeadWs(s) = Len(s) THEN 0 ELSE TrailWs(s))

\* C1: when the native text has trimmed length >= min_text_threshold and its
\* assessed confidence is not "low", process_pdf returns (native text, "text",
\* that confidence) and extract_text_ocr is never invoked.
C1_TextPath ==
    (/\ pc \notin {"start", "text_page"}
     /\ TrimLen(native_text) >= min_text_threshold
     /\ native_conf # "low")
    => /\ ocr_calls = 0
       /\ Returned
       /\ result = <<native_text, "text", native_conf>>
       /\ native_conf = assess_text_quality(native_text)

\* C1 witness: a native text of exactly min_text_threshold characters was kept
C1_Witness ==
    /\ Returned
    /\ TrimLen(native_text) = min_text_threshold
    /\ native_conf = "medium"
    /\ result[2] = "text"

\* C2: when OCR was attempted and its text has trimmed length >=
\* min_text_threshold, process_pdf returns exactly the OCR text, method "ocr"
\* and the confidence assessed on the OCR text.
C2_OcrAdopted ==
    (/\ Returned
     /\ ocr_calls >= 1
     /\ TrimLen(ocr_text) >= min_text_threshold)
    => result = <<ocr_text, "ocr", assess_text_quality(ocr_text)>>

\* C2 witness: OCR was adopted and its confidence differs from the native one
C2_Witness ==
    /\ Returned
    /\ result[2] = "ocr"
    /\ native_text # <<>>
    /\ result[3] # native_conf
    /\ TrimLen(ocr_text) = min_text_threshold

\* C3: when the native text is empty and OCR is insufficient, process_pdf
\* returns the empty text, method "ocr" and confidence "low".
C3_BothFail ==
    (/\ Returned
     /\ native_text = <<>>
     /\ ocr_calls >= 1
     /\ TrimLen(ocr_text) < min_text_threshold)
    => result = << <<>>, "ocr", "low">>

\* C4: when OCR was attempted but is insufficient and the native text is not
\* empty, process_pdf returns the native text unchanged, method
\* "text_fallback" and the confidence assessed on the native text.
C4_TextFallback ==
    (/\ Returned
     /\ ocr_calls >= 1
     /\ TrimLen(ocr_text) < min_text_threshold
     /\ native_text # <<>>)
    => result = <<native_text, "text_fallback", native_conf>>

\* C4 witness: OCR read something, too little, and the native text was kept
C4_Witness ==
    /\ Returned
    /\ result[2] = "text_fallback"
    /\ ocr_text # <<>>
    /\ TrimLen(ocr_text) > 0
    /\ assess_text_quality(ocr_text) # native_conf

\* C5 as stated: method "text_fallback" implies confidence "low".
C5_FallbackIsLow ==
    (Returned /\ result[2] = "text_fallback") => result[3] = "low"

\* C5 amended: method "text_fallback" implies that the confidence is the one
\* assessed on the native text, and it is "low" whenever the native text has
\* trimmed length >= min_text_threshold or < 50.
C5_FallbackKeepsNativeConfidence ==
    (Returned /\ result[2] = "text_fallback")
    => /\ result[3] = native_conf
       /\ (\/ TrimLen(native_text) >= min_text_threshold
           \/ TrimLen(native_text) < QualityShort) => result[3] = "low"

\* C5 witness: a fallback on a native text that met the threshold
C5_Witness ==
    /\ Returned
    /\ result[2] = "text_fallback"
    /\ TrimLen(native_text) >= min_text_threshold
    /\ result[3] = "low"

\* C6: an exception of the native-text, OCR or table collaborator never leaves
\* extract_text_pdfplumber, extract_text_ocr, extract_tables or process_pdf;
\* the failing stage returns ("", False), whatever it had accumulated, or an
\* empty table list, and process_pdf goes on with that result.
C6_NoEscape ==
    /\ ~escaped
    /\ pc # "crashed"
    /\ "text" \in raised =>
          /\ native_text = <<>> /\ ~text_success
          /\ pc # "text_page"
          /\ Returned => (ocr_calls = 1 /\ result[1] \in {<<>>, ocr_text})
    /\ "ocr" \in raised =>
          /\ ocr_text = <<>> /\ ~ocr_success
          /\ Returned
          /\ result[1] = native_text /\ result[3] = native_conf
    /\ "tables" \in raised => (tables = <<>> /\ pc = "done")

\* C6 witness: each collaborator failed, the first two after a page was read
C6_Witness ==
    /\ raised = {"text", "ocr", "tables"}
    /\ text_acc # <<>>
    /\ ocr_acc # <<>>
    /\ pc = "done"

(***************************************************************************)
(* assess_text_quality as a function of its input                          *)
(***************************************************************************)
AssessKeywords == { <<>>,
                    <<"s","h","i","p","p","e","r">>,
                    <<"C","o","n","s","i","g","n","e","e">>,
                    <<"V","E","S","S","E","L">>,
                    <<"b","/","l">>,
                    <<"B","o","L">>,
                    <<"S","H","I","P","E","R">>,
                    <<"B","/"," ","L">> }

\* lead blanks, one "x", a keyword, nl newlines, "x" up to n characters after
\* trimming, trail newlines
AssessText(lead, kw, nl, n, trail) ==
    Rep(" ", lead) \o <<"x">> \o kw \o Rep(NL, nl)
        \o Rep("x", n - 1 - Len(kw) - nl) \o Rep(NL, trail)

AssessInputs ==
    {AssessText(lead, kw, nl, n, trail) :
        lead \in {0, 1}, kw \in AssessKeywords, nl \in {0, 3, 4, 5, 6},
        n \in {49, 50, 51}, trail \in {0, 1, 2}}

InitAssess ==
    /\ PdfIdle
    /\ AppIdle
    /\ ocr_enabled = TRUE
    /\ inp \in AssessInputs
    /\ field = "none"
    /\ outp = <<>>
    /\ fpc = "in"

Assess ==
    /\ fpc = "in"
    /\ outp' = assess_text_quality(inp)
    /\ fpc' = "out"
    /\ UNCHANGED <<inp, field>>
    /\ UNCHANGED pdfvars
    /\ UNCHANGED appvars

NextAssess == Assess

SpecAssess == InitAssess /\ [][NextAssess]_vars

\* the reference of the claim, written from its words
RefTrimmedLen(text) ==
    Cardinality({i \in 1..Len(text) :
        /\ \E j \in 1..i : text[j] \notin Space
        /\ \E j \in i..Len(text) : text[j] \notin Space})

RefKeywords == { <<"s","h","i","p","p","e","r">>,
                 <<"c","o","n","s","i","g","n","e","e">>,
                 <<"v","e","s","s","e","l">>,
                 <<"b","/","l">>,
                 <<"b","o","l">> }

RefHasKeywords(text) ==
    \E k \in RefKeywords : \E a \in 0..(Len(text) - Len(k)) :
        \A i \in 1..Len(k) : LowerChar(text[a + i]) = k[i]

RefHasStructure(text) == Cardinality({i \in 1..Len(text) : text[i] = NL}) >= 6

RefQuality(text) ==
    IF RefTrimmedLen(text) < 50 THEN "low"
    ELSE IF RefHasKeywords(text) /\ RefHasStructure(text) THEN "high"
    ELSE IF RefHasKeywords(text) # RefHasStructure(text) THEN "medium"
    ELSE "low"

Artifact == {":", "-"} \cup Space

RECURSIVE CollapseFrom(_, _)
\* re.sub(r'\s+', ' ', s), from the character at index i on
CollapseFrom(s, i) ==
    IF i > Len(s) THEN <<>>
    ELSE IF s[i] \in Space
         THEN (IF i > 1 /\ s[i - 1] \in Space THEN <<>> ELSE <<" ">>)
                  \o CollapseFrom(s, i + 1)
         ELSE <<s[i]>> \o CollapseFrom(s, i + 1)

\* length of the longest prefix of s made of characters of set
LeadRun(s, set) ==
    IF \A i \in 1..Len(s) : s[i] \in set THEN Len(s)
    ELSE (CHOOSE i \in 1..Len(s) :
             s[i] \notin set /\ \A j \in 1..(i - 1) : s[j] \in set) - 1

\* length of the longest suffix of s made of characters of set
TrailRun(s, set) ==
    IF \A i \in 1..Len(s) : s[i] \in set THEN Len(s)
    ELSE Len(s) - (CHOOSE i \in 1..Len(s) :
             s[i] \notin set /\ \A j \in (i + 1)..Len(s) : s[j] \in set)

\* re.sub(r'^[:\-\s]+', '', s)
DropLeading(s) == Slice(s, LeadRun(s, Artifact), Len(s))

\* re.sub(r'[:\-\s]+$', '', s)
DropTrailing(s) == Slice(s, 0, Len(s) - TrailRun(s, Artifact))

\* a variant whose prefix pattern lacks the "+": one artifact character only
clean_field_data_once(data) ==
    LET c == CollapseFrom(Strip(data), 1)
    IN DropTrailing(IF c # <<>> /\ c[1] \in Artifact
                    THEN Slice(c, 1, Len(c)) ELSE c)

clean_field_data(data) ==
    DropTrailing(DropLeading(CollapseFrom(Strip(data), 1)))

CleanAlphabet == {" ", NL, ":", "-", "a"}

CleanInputs ==
    UNION {[1..n -> CleanAlphabet] : n \in 0..MaxCleanLen}

InitClean ==
    /\ PdfIdle
    /\ AppIdle
    /\ ocr_enabled = TRUE
    /\ inp \in CleanInputs
    /\ field = "none"
    /\ outp = <<>>
    /\ fpc = "in"

\* clean_field_data(s)
Clean ==
    /\ fpc = "in"
    /\ outp' = clean_field_data(inp)
    /\ fpc' = "out"
    /\ UNCHANGED <<inp, field>>
    /\ UNCHANGED pdfvars
    /\ UNCHANGED appvars

\* the result is cleaned once more
CleanAgain ==
    /\ fpc = "out"
    /\ inp' = outp
    /\ outp' = clean_field_data(outp)
    /\ fpc' = "again"
    /\ UNCHANGED field
    /\ UNCHANGED pdfvars
    /\ UNCHANGED appvars

NextClean == Clean \/ CleanAgain

SpecClean == InitClean /\ [][NextClean]_vars

\* C8: cleaning a cleaned value changes nothing.
C8_CleanIdempotent == fpc = "again" => outp = inp

\* C8 witness: a once-cleaned value that still holds an artifact character and
\* a blank inside was cleaned again
C8_Witness ==
    /\ fpc = "again"
    /\ Len(inp) >= 2
    /\ \E i \in 1..Len(inp) : inp[i] \in {":", "-"}
    /\ \E i \in 1..Len(inp) : inp[i] = " "

(***************************************************************************)
(* re.search: matching with backtracking                                   *)
(***************************************************************************)
NoMatch == [ok |-> FALSE, e |-> 0, a |-> 0, b |-> 0]

\* how many of the characters after position i are in set, limit at most
RunLen(s, i, set, limit) ==
    LET m == IF limit < Len(s) - i THEN limit ELSE Len(s) - i
    IN IF \A j \in 1..m : s[i + j] \in set THEN m
       ELSE (CHOOSE k \in 1..m :
                s[i + k] \notin set /\ \A j \in 1..(k - 1) : s[i + j] \in set) - 1

RECURSIVE MatchAt(_, _, _, _)
RECURSIVE TryCount(_, _, _, _, _, _, _, _)
RECURSIVE TryAlt(_, _, _, _, _, _)

\* match nodes at position i (characters consumed so far); cap = <<start, end>>
\* of group 1
MatchAt(nodes, s, i, cap) ==
    IF nodes = <<>> THEN [ok |-> TRUE, e |-> i, a |-> cap[1], b |-> cap[2]]
    ELSE LET n == nodes[1]
             rest == Tail(nodes)
         IN CASE n.t = "cls" ->
                   LET top == RunLen(s, i, n.set,
                                     IF n.inf THEN Len(s) ELSE n.hi)
                   IN IF top < n.lo THEN NoMatch
                      ELSE TryCount(rest, s, i, cap,
                                    IF n.lazy THEN n.lo ELSE top,
                                    n.lo, top, n.lazy)
              [] n.t = "lit" ->
                   IF /\ i + Len(n.str) <= Len(s)
                      /\ \A j \in 1..Len(n.str) : s[i + j] \in n.str[j]
                   THEN MatchAt(rest, s, i + Len(n.str), cap) ELSE NoMatch
              [] n.t = "alt" -> TryAlt(n.alts, 1, rest, s, i, cap)
              [] n.t = "open" -> MatchAt(rest, s, i, <<i, cap[2]>>)
              [] n.t = "close" -> MatchAt(rest, s, i, <<cap[1], i>>)
              [] n.t = "look" ->
                   IF MatchAt(n.alts[1], s, i, cap).ok
                   THEN MatchAt(rest, s, i, cap) ELSE NoMatch
              [] n.t = "eol" ->
                   IF i = Len(s) \/ s[i + 1] = NL
                   THEN MatchAt(rest, s, i, cap) ELSE NoMatch

\* a greedy repetition takes k characters and, when the rest fails, backtracks
\* to one fewer; a lazy one takes the fewest characters that let the rest match
TryCount(rest, s, i, cap, k, lo, top, lazy) ==
    IF lazy
    THEN LET ks == {n \in lo..top : MatchAt(rest, s, i + n, cap).ok}
         IN IF ks = {} THEN NoMatch
            ELSE MatchAt(rest, s,
                         i + (CHOOSE n \in ks : \A x \in ks : n <= x), cap)
    ELSE LET r == MatchAt(rest, s, i + k, cap)
         IN IF r.ok THEN r
            ELSE IF k = lo THEN NoMatch
            ELSE TryCount(rest, s, i, cap, k - 1, lo, top, lazy)

\* the alternatives of a group, in order
TryAlt(alts, j, rest, s, i, cap) ==
    IF j > Len(alts) THEN NoMatch
    ELSE LET r == MatchAt(alts[j] \o rest, s, i, cap)
         IN IF r.ok THEN r ELSE TryAlt(alts, j + 1, rest, s, i, cap)

\* re.search: the match at the leftmost position that has one
re_search(pattern, s) ==
    LET starts == {st \in 0..Len(s) : MatchAt(pattern, s, st, <<0, 0>>).ok}
    IN IF starts = {} THEN NoMatch
       ELSE MatchAt(pattern, s,
                    CHOOSE st \in starts : \A x \in starts : st <= x,
                    <<0, 0>>)

\* match.group(1)
Group1(m, s) == Slice(s, m.a, m.b)

\* self.patterns.get(field_type, [])
get_patterns(field_type) ==
    IF field_type \in DOMAIN catalog THEN catalog[field_type] ELSE <<>>

(***************************************************************************)
(* BOLDataExtractor                                                        *)
(***************************************************************************)
RECURSIVE FieldFromFirstMatch(_, _, _)
\* a variant of the loop that returns at the first pattern that matches,
\* whatever it captured
FieldFromFirstMatch(pats, k, text) ==
    IF k > Len(pats) THEN <<>>
    ELSE LET m == re_search(pats[k], text)
         IN IF m.ok
            THEN clean_field_data(Strip(Group1(m, text)))
            ELSE FieldFromFirstMatch(pats, k + 1, text)

RECURSIVE FieldFrom(_, _, _)
\* the loop of extract_field from the k-th pattern on
FieldFrom(pats, k, text) ==
    IF k > Len(pats) THEN <<>>
    ELSE LET m == re_search(pats[k], text)
         IN IF m.ok /\ Strip(Group1(m, text)) # <<>>
            THEN clean_field_data(Strip(Group1(m, text)))
            ELSE FieldFrom(pats, k + 1, text)

\* the list [pats[n], ..., pats[1]]
Reversed(pats) == [k \in 1..Len(pats) |-> pats[Len(pats) + 1 - k]]

\* a variant that tries the patterns of the list from the last to the first
extract_field_reversed(text, field_type) ==
    FieldFrom(Reversed(get_patterns(field_type)), 1, text)

extract_field(text, field_type) == FieldFrom(get_patterns(field_type), 1, text)

\* text.split('\n')[0]
FirstLine(text) ==
    IF \E i \in 1..Len(text) : text[i] = NL
    THEN Slice(text, 0, (CHOOSE i \in 1..Len(text) :
                 text[i] = NL /\ \A j \in 1..(i - 1) : text[j] # NL) - 1)
    ELSE text

\* '\n'.join(text.split('\n')[1:])
AfterFirstLine(text) ==
    IF \E i \in 1..Len(text) : text[i] = NL
    THEN Slice(text, CHOOSE i \in 1..Len(text) :
                 text[i] = NL /\ \A j \in 1..(i - 1) : text[j] # NL, Len(text))
    ELSE <<>>

\* the local function of extract_parties
split_name_address(text) ==
    IF text = <<>> THEN << <<>>, <<>> >>
    ELSE <<Strip(FirstLine(text)), Strip(AfterFirstLine(text))>>

extract_parties(text) ==
    split_name_address(extract_field(text, "shipper"))
        \o split_name_address(extract_field(text, "consignee"))
        \o split_name_address(extract_field(text, "notify_party"))

\* self.extract_field(text, "bol_number")
extract_bol_number(text) == extract_field(text, "bol_number")

extract_vessel_info(text) ==
    <<extract_field(text, "vessel"), extract_field(text, "voyage")>>

extract_ports(text) ==
    <<extract_field(text, "port_of_load"), extract_field(text, "port_of_discharge")>>

extract_freight_terms(text) == extract_field(text, "freight_terms")

RECURSIVE FindFrom(_, _, _)
\* re.findall scanning from position pos: group 1 of every match, the scan
\* resuming where the previous match ended
FindFrom(pattern, s, pos) ==
    LET starts == {st \in pos..Len(s) : MatchAt(pattern, s, st, <<0, 0>>).ok}
    IN IF starts = {} THEN <<>>
       ELSE LET st == CHOOSE x \in starts : \A y \in starts : x <= y
                m == MatchAt(pattern, s, st, <<0, 0>>)
            IN <<Group1(m, s)>>
                   \o FindFrom(pattern, s, IF m.e > st THEN m.e ELSE st + 1)

\* re.findall(pattern, text, re.IGNORECASE) for a pattern with one group
re_findall(pattern, s) == FindFrom(pattern, s, 0)

RECURSIVE DatesFrom(_, _, _)
\* the loop of extract_dates from the k-th pattern on
DatesFrom(pats, k, text) ==
    IF k > Len(pats) THEN <<>>
    ELSE IF re_findall(pats[k], text) # <<>>
         THEN re_findall(pats[k], text)[1]
         ELSE DatesFrom(pats, k + 1, text)

\* a variant that tries the date shapes from the last to the first
extract_dates_reversed(text) ==
    DatesFrom(Reversed(get_patterns("date_patterns")), 1, text)

extract_dates(text) == DatesFrom(get_patterns("date_patterns"), 1, text)

\* the source text of the weight patterns, which the routing looks into
weight_sources ==
    << <<"(","?",":","G","R","O","S","S","\\","s","*","W","E","I","G","H","T","\\",".","?","\\","s","*",":","?","\\","s","*",")","(","[","0","-","9",",",".","\\","s","]","+","(","?",":","K","G","|","L","B","S","|","M","T","|","T","O","N",")",")">>,
       <<"(","?",":","N","E","T","\\","s","*","W","E","I","G","H","T","\\",".","?","\\","s","*",":","?","\\","s","*",")","(","[","0","-","9",",",".","\\","s","]","+","(","?",":","K","G","|","L","B","S","|","M","T","|","T","O","N",")",")">>,
       <<"(","?",":","W","E","I","G","H","T","\\",".","?","\\","s","*",":","?","\\","s","*",")","(","[","0","-","9",",",".","\\","s","]","+","(","?",":","K","G","|","L","B","S","|","M","T","|","T","O","N",")",")">> >>

\* a variant in which the generic pattern overwrites a gross weight
route_weight_overwrite(source, first, gross_weight, net_weight) ==
    IF Contains(StrUpper(source), <<"G","R","O","S","S">>) THEN <<first, net_weight>>
    ELSE IF Contains(StrUpper(source), <<"N","E","T">>) THEN <<gross_weight, first>>
    ELSE <<first, net_weight>>

\* the if / elif / elif of extract_weights_quantities for a pattern whose
\* first match is first: the new (gross_weight, net_weight)
route_weight(source, first, gross_weight, net_weight) ==
    IF Contains(StrUpper(source), <<"G","R","O","S","S">>) THEN <<first, net_weight>>
    ELSE IF Contains(StrUpper(source), <<"N","E","T">>) THEN <<gross_weight, first>>
    ELSE IF gross_weight = <<>> THEN <<first, net_weight>>
    ELSE <<gross_weight, net_weight>>

RECURSIVE WeightsFrom(_, _, _, _)
\* the weight loop of extract_weights_quantities from the k-th pattern on
WeightsFrom(pats, k, text, gn) ==
    IF k > Len(pats) THEN gn
    ELSE LET matches == re_findall(pats[k], text)
         IN WeightsFrom(pats, k + 1, text,
                        IF matches # <<>>
                        THEN route_weight(weight_sources[k], matches[1], gn[1], gn[2])
                        ELSE gn)

RECURSIVE QuantityFromNonEmpty(_, _, _)
\* a variant of the quantity loop that goes on to the next pattern when the
\* capture is empty after strip()
QuantityFromNonEmpty(pats, k, text) ==
    IF k > Len(pats) THEN <<>>
    ELSE LET m == re_search(pats[k], text)
         IN IF m.ok /\ Strip(Group1(m, text)) # <<>>
            THEN Strip(Group1(m, text))
            ELSE QuantityFromNonEmpty(pats, k + 1, text)

RECURSIVE QuantityFrom(_, _, _)
\* the quantity loop of extract_weights_quantities from the k-th pattern on
QuantityFrom(pats, k, text) ==
    IF k > Len(pats) THEN <<>>
    ELSE LET m == re_search(pats[k], text)
         IN IF m.ok THEN Strip(Group1(m, text))
            ELSE QuantityFrom(pats, k + 1, text)

\* (gross_weight, net_weight, quantity)
extract_weights_quantities(text) ==
    WeightsFrom(get_patterns("weight_patterns"), 1, text, << <<>>, <<>> >>)
        \o <<QuantityFrom(get_patterns("quantity_patterns"), 1, text)>>

(***************************************************************************)
(* TableParser.parse_cargo_description_table                               *)
(***************************************************************************)
DescriptionKeywords == {<<"D","E","S","C","R","I","P","T","I","O","N">>, <<"G","O","O","D","S">>, <<"C","A","R","G","O">>, <<"C","O","M","M","O","D","I","T","Y">>}

\* any(keyword in str(col).upper() for keyword in [...])
is_description_column(col) ==
    \E keyword \in DescriptionKeywords : Contains(StrUpper(col.name), keyword)

\* the decimal digits, in order
DigitSeq == <<"0","1","2","3","4","5","6","7","8","9">>

RECURSIVE IntStr(_)
\* str(n) for a non-negative int
IntStr(n) ==
    IF n < 10 THEN <<DigitSeq[n + 1]>>
    ELSE IntStr(n \div 10) \o <<DigitSeq[(n % 10) + 1]>>

\* astype(str) on one cell
CellStr(c) == IF c.k = "int" THEN IntStr(c.n) ELSE c.v

\* table[col].dropna().astype(str).tolist()
ColumnStrings(col) ==
    LET kept == SelectSeq(col.cells, LAMBDA c : c.k # "nan")
    IN [i \in 1..Len(kept) |-> CellStr(kept[i])]

RECURSIVE TableStrings(_, _)
\* what one table adds to cargo_descriptions, from its k-th column on
TableStrings(table, k) ==
    IF k > Len(table) THEN <<>>
    ELSE (IF is_description_column(table[k]) THEN ColumnStrings(table[k]) ELSE <<>>)
             \o TableStrings(table, k + 1)

RECURSIVE CargoStrings(_, _)
\* cargo_descriptions after the tables from the k-th on
CargoStrings(tabs, k) ==
    IF k > Len(tabs) THEN <<>>
    ELSE TableStrings(tabs[k], 1) \o CargoStrings(tabs, k + 1)

RECURSIVE JoinWith(_, _)
\* sep.join(items)
JoinWith(sep, items) ==
    IF items = <<>> THEN <<>>
    ELSE IF Len(items) = 1 THEN items[1]
    ELSE items[1] \o sep \o JoinWith(sep, Tail(items))

parse_cargo_description_table(tabs) ==
    IF CargoStrings(tabs, 1) # <<>>
    THEN JoinWith(<<";", " ">>, CargoStrings(tabs, 1))
    ELSE <<>>

(***************************************************************************)
(* BOLData and BOLDataExtractor.extract_all_fields                         *)
(***************************************************************************)
\* BOLData(): the defaults of the dataclass
BOLData ==
    [filename |-> "", bol_number |-> <<>>,
     shipper_name |-> <<>>, shipper_address |-> <<>>,
     consignee_name |-> <<>>, consignee_address |-> <<>>,
     notify_party_name |-> <<>>, notify_party_address |-> <<>>,
     vessel_name |-> <<>>, voyage_number |-> <<>>,
     port_of_load |-> <<>>, port_of_discharge |-> <<>>,
     description_of_goods |-> <<>>, quantity_packages |-> <<>>,
     gross_weight |-> <<>>, net_weight |-> <<>>,
     freight_terms |-> <<>>, date_of_issue |-> <<>>,
     extraction_method |-> "", extraction_confidence |-> "medium",
     processing_notes |-> <<>>, extraction_failed |-> FALSE]

\* label\.?\s*:?\s*(.*?)(?=\n\s*(?:[A-Z]+:|$))
GoodsPattern(label) ==
    label \o LabelTail \o Capture(<<LazyAny>>)
        \o <<Look(<<NlNode, WsStar,
                    Alt(<< <<Plus(Upper \cup Lower)>> \o Lit(<<":">>),
                           <<Mark("eol")>> >>)>>)>>

\* the local list goods_patterns of extract_all_fields
goods_patterns ==
    << GoodsPattern(Lit(<<"D","E","S","C","R","I","P","T","I","O","N">>) \o <<WsStar>> \o Lit(<<"O","F">>) \o <<WsStar>>
                        \o Lit(<<"G","O","O","D","S">>)),
       GoodsPattern(Lit(<<"G","O","O","D","S">>)),
       GoodsPattern(Lit(<<"C","A","R","G","O">>)) >>

RECURSIVE GoodsFrom(_, _, _, _)
\* the loop over goods_patterns from the k-th pattern on
GoodsFrom(pats, k, text, description) ==
    IF k > Len(pats) THEN description
    ELSE LET m == re_search(pats[k], text)
         IN IF m.ok THEN clean_field_data(Group1(m, text))
            ELSE GoodsFrom(pats, k + 1, text, description)

\* a variant that asks the text first and the tables only when it finds nothing
cargo_description_text_first(text, tabs) ==
    LET from_text == GoodsFrom(goods_patterns, 1, text, BOLData.description_of_goods)
    IN IF from_text = <<>> /\ tabs # <<>>
       THEN parse_cargo_description_table(tabs)
       ELSE from_text

\* description_of_goods after the table lookup and the text fallback
cargo_description(text, tabs) ==
    LET from_tables == IF tabs # <<>> THEN parse_cargo_description_table(tabs)
                       ELSE BOLData.description_of_goods
    IN IF from_tables = <<>>
       THEN GoodsFrom(goods_patterns, 1, text, from_tables)
       ELSE from_tables

\* the attributes each statement of the try block assigns, in program order
StepFields ==
    << <<"bol_number">>,
       <<"shipper_name", "shipper_address", "consignee_name",
         "consignee_address", "notify_party_name", "notify_party_address">>,
       <<"vessel_name", "voyage_number">>,
       <<"port_of_load", "port_of_discharge">>,
       <<"date_of_issue">>,
       <<"gross_weight", "net_weight", "quantity_packages">>,
       <<"freight_terms">>,
       <<"description_of_goods">> >>

\* the values the k-th statement computes for them
StepValues(k, text, tabs) ==
    CASE k = 1 -> <<extract_bol_number(text)>>
      [] k = 2 -> extract_parties(text)
      [] k = 3 -> extract_vessel_info(text)
      [] k = 4 -> extract_ports(text)
      [] k = 5 -> <<extract_dates(text)>>
      [] k = 6 -> extract_weights_quantities(text)
      [] k = 7 -> <<extract_freight_terms(text)>>
      [] k = 8 -> <<cargo_description(text, tabs)>>

\* rec after the assignment names = values
Assigned(rec, names, values) ==
    [f \in DOMAIN rec |->
        IF \E i \in 1..Len(names) : names[i] = f
        THEN values[CHOOSE i \in 1..Len(names) : names[i] = f]
        ELSE rec[f]]

\* the k-th statement of the try block
run_step(rec, k, text, tabs) ==
    Assigned(rec, StepFields[k], StepValues(k, text, tabs))

\* a variant of the handler that hands back a fresh record
extraction_error_fresh(rec, msg) ==
    [BOLData EXCEPT !.filename = rec.filename,
                    !.extraction_failed = TRUE,
                    !.processing_notes = <<"E","x","t","r","a","c","t","i","o","n"," ","e","r","r","o","r",":"," ">> \o msg]

\* except Exception as e  in extract_all_fields
extraction_error(rec, msg) ==
    [rec EXCEPT !.extraction_failed = TRUE,
                !.processing_notes = <<"E","x","t","r","a","c","t","i","o","n"," ","e","r","r","o","r",":"," ">> \o msg]

RECURSIVE StepsFrom(_, _, _, _, _)
\* the try block from its k-th statement on; the fault says which statement
\* raises (0: none) and with which str(e)
StepsFrom(rec, k, text, tabs, fault) ==
    IF k > Len(StepFields) THEN rec
    ELSE IF fault.step = k THEN extraction_error(rec, fault.msg)
    ELSE StepsFrom(run_step(rec, k, text, tabs), k + 1, text, tabs, fault)

extract_all_fields(text, tabs, filename, fault) ==
    StepsFrom([BOLData EXCEPT !.filename = filename], 1, text, tabs, fault)

(***************************************************************************)
(* BOLOCRApp.process_single_pdf                                            *)
(***************************************************************************)
\* process_pdf as a function of what its two extractors return
process_pdf(native, ocr) ==
    IF NeedsOcr(native.success, assess_text_quality(native.text))
    THEN AfterOcr(native.text, assess_text_quality(native.text), ocr.text, ocr.success)
    ELSE <<native.text, "text", assess_text_quality(native.text)>>

\* a variant of the handler that does not flag the record
processing_error_unflagged(filename, msg) ==
    [BOLData EXCEPT !.filename = filename,
                    !.processing_notes = <<"P","r","o","c","e","s","s","i","n","g"," ","e","r","r","o","r",":"," ">> \o msg]

\* except Exception as e  in process_single_pdf
processing_error(filename, msg) ==
    [BOLData EXCEPT !.filename = filename,
                    !.extraction_failed = TRUE,
                    !.processing_notes = <<"P","r","o","c","e","s","s","i","n","g"," ","e","r","r","o","r",":"," ">> \o msg]

\* bol_data.extraction_method = ...; bol_data.extraction_confidence = ...
labelled(rec, extraction_method, confidence) ==
    [rec EXCEPT !.extraction_method = extraction_method,
                !.extraction_confidence = confidence]

(***************************************************************************)
(* extract_field and extract_parties as functions of the text              *)
(***************************************************************************)
ScalarFields == {"bol_number", "vessel", "voyage", "port_of_load",
                 "port_of_discharge", "freight_terms"}

\* labelled lines a document can hold for a field
Segments(field_type) ==
    CASE field_type = "bol_number" ->
            {<<"B","/","L"," ","N","o",":"," ","A","1">>, <<"B","O","L"," ","#",":"," ","B","2">>, <<"B","i","l","l"," ","o","f"," ","L","a","d","i","n","g"," ","N","o",":"," ","C","3">>,
             <<"D","o","c","u","m","e","n","t"," ","N","u","m","b","e","r",":"," ","D","4">>, <<"b","/","l"," ","n","o",".",":"," ","-">>}
      [] field_type = "vessel" ->
            {<<"V","E","S","S","E","L",":"," ","M","V"," ","A">>, <<"S","H","I","P"," ","N","A","M","E",":"," ","B">>, <<"v","e","s","s","e","l",":"," "," ">>, <<"S","h","i","p"," ","N","a","m","e",":"," ","-">>}
      [] field_type = "voyage" ->
            {<<"V","O","Y","A","G","E",":"," ","V","1">>, <<"V","O","Y",":"," ","V","2">>, <<"V","o","y","."," ","7","-","A">>}
      [] field_type = "port_of_load" ->
            {<<"P","O","R","T"," ","O","F"," ","L","O","A","D","I","N","G",":"," ","L","A">>, <<"L","O","A","D"," ","P","O","R","T",":"," ","X">>, <<"P","o","r","t"," ","o","f"," ","L","o","a","d"," ","Y">>}
      [] field_type = "port_of_discharge" ->
            {<<"P","O","R","T"," ","O","F"," ","D","E","S","T",":"," ","Z">>, <<"D","I","S","C","H","A","R","G","E"," ","P","O","R","T",":"," ","W">>, <<"p","o","r","t"," ","o","f"," ","d","i","s","c","h","a","r","g","e",":"," ","n","y">>}
      [] field_type = "freight_terms" ->
            {<<"F","R","E","I","G","H","T",":"," ","P","R","E","P","A","I","D">>, <<"f","r","e","i","g","h","t",":"," ","p","r","e","p","a","i","d">>,
             <<"T","E","R","M","S",":"," ","c","o","l","l","e","c","t">>, <<"T","e","r","m","s"," ","P","a","y","a","b","l","e">>}

RECURSIVE JoinLines(_)
\* '\n'.join(lines)
JoinLines(lines) ==
    IF lines = <<>> THEN <<>>
    ELSE IF Len(lines) = 1 THEN lines[1]
    ELSE lines[1] \o <<NL>> \o JoinLines(Tail(lines))

\* the text of test_extract_multiple_bol_numbers_returns_first
ThreeNumbers ==
    <<"B","/","L"," ","N","O",":"," ","B","O","L","0","0","1"," ","a","n","d"," ","a","l","s","o"," ","B","O","L"," ","N","O",":"," ","B","O","L","0","0","2"," ","a","n","d"," ","B","i","l","l"," ","o","f"," ","L","a","d","i","n","g"," ","#",":"," ","B","O","L","0","0","3">>

FieldTexts(field_type) ==
    {JoinLines(l) : l \in UNION {[1..n -> Segments(field_type)] : n \in 1..MaxSegs}}
    \cup (IF field_type = "bol_number" THEN {ThreeNumbers} ELSE {})

\* the lines a party section can consist of
PartyBlocks(label) ==
    { <<>>,
      <<label \o <<" ","A","c","m","e"," ","C","o","r","p">>>>,
      <<label, <<"A","c","m","e"," ","C","o","r","p">>, <<"1","2","3"," ","M","a","i","n"," ","S","t">>>>,
      <<label \o <<" ","B","o","b"," ","L","t","d">>, <<"2"," ","R","d">>, <<"N","Y">>>> }

PartyTexts ==
    {JoinLines(a \o b \o c \o <<<<"V","E","S","S","E","L",":"," ","X">>>>) :
        a \in PartyBlocks(<<"S","H","I","P","P","E","R",":">>),
        b \in PartyBlocks(<<"C","O","N","S","I","G","N","E","E",":">>),
        c \in PartyBlocks(<<"N","O","T","I","F","Y"," ","P","A","R","T","Y",":">>)}

\* what can follow the last line of a document
Endings == {<<>>, <<NL>>, <<NL, " ", " ">>, <<NL, NL>>}

\* documents that end with a party section
PartyTailTexts ==
    {JoinLines(a \o b \o c) \o e :
        a \in PartyBlocks(<<"S","H","I","P","P","E","R",":">>),
        b \in PartyBlocks(<<"C","O","N","S","I","G","N","E","E",":">>),
        c \in PartyBlocks(<<"N","O","T","I","F","Y"," ","P","A","R","T","Y",":">>),
        e \in Endings}

\* a party section, then what can stand between it and the next label: nothing,
\* one blank line and a remark, or two blank lines and a remark
PartyGaps == {<<>>, <<<<>>, <<"r","e","m","a","r","k","s"," ","h","e","r","e">>>>, <<<<>>, <<>>, <<"r","e","m","a","r","k","s"," ","h","e","r","e">>>>}

\* documents with remarks between the party sections
PartyGapTexts ==
    {JoinLines(a \o g \o b \o h \o c \o i \o <<<<"V","E","S","S","E","L",":"," ","X">>>>) :
        a \in PartyBlocks(<<"S","H","I","P","P","E","R",":">>) \ {<<>>, <<<<"S","H","I","P","P","E","R",":">>, <<"A","c","m","e"," ","C","o","r","p">>, <<"1","2","3"," ","M","a","i","n"," ","S","t">>>>},
        b \in {<<<<"C","O","N","S","I","G","N","E","E",":"," ","B","o","b"," ","L","t","d">>>>},
        c \in PartyBlocks(<<"N","O","T","I","F","Y"," ","P","A","R","T","Y",":">>) \ {<<>>, <<<<"N","O","T","I","F","Y"," ","P","A","R","T","Y",":">>, <<"A","c","m","e"," ","C","o","r","p">>, <<"1","2","3"," ","M","a","i","n"," ","S","t">>>>},
        g \in PartyGaps, h \in PartyGaps, i \in PartyGaps}

\* lines with and without a date a document can hold
DateSegments ==
    {<<"D","a","t","e",":"," ","1","5","/","0","3","/","2","0","2","4">>, <<"I","s","s","u","e","d"," ","5"," ","J","a","n"," ","2","0","2","4">>, <<"o","n"," ","M","a","r","c","h"," ","3",","," ","2","0","2","4">>,
     <<"r","e","f"," ","1","6","-","0","4","-","2","5"," ","x">>, <<"n","o"," ","d","a","t","e">>}

DateTexts ==
    {JoinLines(l) : l \in UNION {[1..n -> DateSegments] : n \in 1..MaxSegs}}

\* weight and quantity lines a document can hold
WeightSegments ==
    {<<"G","R","O","S","S"," ","W","E","I","G","H","T",":"," ","1","0","0"," ","K","G">>,
     <<"N","E","T"," ","W","E","I","G","H","T",":"," ","9","0"," ","K","G">>,
     <<"W","E","I","G","H","T",":"," ","5","0"," ","K","G">>,
     <<"g","r","o","s","s"," ","w","e","i","g","h","t"," ","7"," ","l","b","s">>,
     <<"P","A","C","K","A","G","E","S",":"," ","1","0","0"," ","C","T","N","S">>,
     <<"P","A","C","K","A","G","E","S",":"," ","C","T","N","S">>,
     <<"Q","T","Y",":"," ","7">>}

WeightTexts ==
    {JoinLines(l) : l \in UNION {[1..n -> WeightSegments] : n \in 1..MaxSegs}}

InitExtract ==
    /\ PdfIdle
    /\ AppIdle
    /\ ocr_enabled = TRUE
    /\ \/ field \in ScalarFields /\ inp \in FieldTexts(field)
       \/ field = "unknown" /\ inp \in FieldTexts("vessel")
       \/ field = "parties" /\ inp \in PartyTexts \cup PartyTailTexts \cup PartyGapTexts
       \/ field = "dates" /\ inp \in DateTexts
       \/ field = "weights" /\ inp \in WeightTexts
    /\ outp = <<>>
    /\ fpc = "in"

\* extract_field(text, field_type) for a scalar field or an unknown field type
ExtractField ==
    /\ fpc = "in"
    /\ field \in ScalarFields \cup {"unknown"}
    /\ outp' = extract_field(inp, field)
    /\ fpc' = "out"
    /\ UNCHANGED <<inp, field>>
    /\ UNCHANGED pdfvars
    /\ UNCHANGED appvars

\* extract_parties(text)
ExtractParties ==
    /\ fpc = "in"
    /\ field = "parties"
    /\ outp' = extract_parties(inp)
    /\ fpc' = "out"
    /\ UNCHANGED <<inp, field>>
    /\ UNCHANGED pdfvars
    /\ UNCHANGED appvars

\* extract_weights_quantities(text)
ExtractWeights ==
    /\ fpc = "in"
    /\ field = "weights"
    /\ outp' = extract_weights_quantities(inp)
    /\ fpc' = "out"
    /\ UNCHANGED <<inp, field>>
    /\ UNCHANGED pdfvars
    /\ UNCHANGED appvars

\* extract_dates(text)
ExtractDates ==
    /\ fpc = "in"
    /\ field = "dates"
    /\ outp' = extract_dates(inp)
    /\ fpc' = "out"
    /\ UNCHANGED <<inp, field>>
    /\ UNCHANGED pdfvars
    /\ UNCHANGED appvars

NextExtract == ExtractField \/ ExtractParties \/ ExtractWeights \/ ExtractDates

SpecExtract == InitExtract /\ [][NextExtract]_vars

\* match.group(1).strip() of the k-th pattern of the field, "" without a match
Capture1(field_type, k, text) ==
    LET m == re_search(get_patterns(field_type)[k], text)
    IN IF m.ok THEN Strip(Group1(m, text)) ELSE <<>>

\* where the k-th pattern's match starts; only used when it matches
MatchStart(field_type, k, text) ==
    CHOOSE st \in 0..Len(text) :
        /\ MatchAt(get_patterns(field_type)[k], text, st, <<0, 0>>).ok
        /\ \A x \in 0..(st - 1) :
              ~MatchAt(get_patterns(field_type)[k], text, x, <<0, 0>>).ok

\* C9 as stated: whenever the patterns at positions i < j both have a capture
\* that is non-empty after trimming, extract_field returns the cleaned capture
\* of pattern i.
C9_EarlierOfAnyPair ==
    (fpc = "out" /\ field \in ScalarFields) =>
        \A i, j \in 1..Len(get_patterns(field)) :
            (/\ i < j
             /\ Capture1(field, i, inp) # <<>>
             /\ Capture1(field, j, inp) # <<>>)
            => outp = clean_field_data(Capture1(field, i, inp))

\* C9 amended: whenever the patterns at positions i < j both have a capture
\* that is non-empty after trimming and no pattern before position i has one,
\* extract_field returns the cleaned capture of pattern i.
C9_FirstPatternWins ==
    (fpc = "out" /\ field \in ScalarFields) =>
        \A i, j \in 1..Len(get_patterns(field)) :
            (/\ i < j
             /\ Capture1(field, i, inp) # <<>>
             /\ Capture1(field, j, inp) # <<>>
             /\ \A h \in 1..(i - 1) : Capture1(field, h, inp) = <<>>)
            => outp = clean_field_data(Capture1(field, i, inp))

\* C9 witness: the later pattern's match lies earlier in the text and would
\* have given another value
C9_Witness ==
    /\ fpc = "out"
    /\ field \in ScalarFields
    /\ \E i, j \in 1..Len(get_patterns(field)) :
         /\ i < j
         /\ Capture1(field, i, inp) # <<>>
         /\ Capture1(field, j, inp) # <<>>
         /\ \A h \in 1..(i - 1) : Capture1(field, h, inp) = <<>>
         /\ MatchStart(field, j, inp) < MatchStart(field, i, inp)
         /\ clean_field_data(Capture1(field, j, inp)) # outp
         /\ outp # <<>>

\* the block captured after a party's section label: the stripped group of the
\* first pattern of the list that has a non-empty one
RECURSIVE BlockFrom(_, _, _)
BlockFrom(field_type, k, text) ==
    IF k > Len(get_patterns(field_type)) THEN <<>>
    ELSE IF Capture1(field_type, k, text) # <<>>
         THEN Capture1(field_type, k, text)
         ELSE BlockFrom(field_type, k + 1, text)

PartyFields == <<"shipper", "consignee", "notify_party">>

\* C10: when the block captured for a party spans two or more lines, the
\* returned name is the block's first line and the returned address is the
\* trimmed rest of the block.
C10_NameAddressSplit ==
    (fpc = "out" /\ field = "parties") =>
        \A p \in 1..3 :
            LET block == BlockFrom(PartyFields[p], 1, inp)
            IN (\E i \in 1..Len(block) : block[i] = NL) =>
                  /\ outp[2 * p - 1] = Strip(FirstLine(block))
                  /\ outp[2 * p] = Strip(AfterFirstLine(block))

(***************************************************************************)
(* extract_all_fields statement by statement; calls on one shared          *)
(* BOLDataExtractor may interleave                                         *)
(***************************************************************************)
\* a document with every field, long and structured enough for "high"
DocFull ==
    JoinLines(<< <<"B","/","L"," ","N","o",":"," ","A","1">>, <<"S","H","I","P","P","E","R",":"," ","A","c","m","e">>, <<"C","O","N","S","I","G","N","E","E",":"," ","B","o","b">>,
                 <<"N","O","T","I","F","Y"," ","P","A","R","T","Y",":"," ","C","y">>, <<"V","E","S","S","E","L",":"," ","M","V"," ","A">>, <<"V","O","Y","A","G","E",":"," ","V","1">>,
                 <<"P","O","R","T"," ","O","F"," ","L","O","A","D","I","N","G",":"," ","L","A">>, <<"P","O","R","T"," ","O","F"," ","D","I","S","C","H","A","R","G","E",":"," ","N","Y">>,
                 <<"D","a","t","e",":"," ","1","5","/","0","3","/","2","0","2","4">>, <<"G","R","O","S","S"," ","W","E","I","G","H","T",":"," ","1","0","0"," ","K","G">>,
                 <<"N","E","T"," ","W","E","I","G","H","T",":"," ","9","0"," ","K","G">>, <<"P","A","C","K","A","G","E","S",":"," ","1","0","0"," ","C","T","N","S">>,
                 <<"F","R","E","I","G","H","T",":"," ","P","R","E","P","A","I","D">>, <<"G","O","O","D","S",":"," ","T","E","A">>, <<"S","I","G","N","E","D",":"," ","X">> >>) \o <<NL>>

\* a short document: fewer than 50 characters
DocShort == <<"B","O","L"," ","#"," ","B","2","\n","V","E","S","S","E","L",":"," ","M","V"," ","B","\n","C","A","R","G","O",":"," ","R","I","C","E","\n">>

\* what OCR reads from a scan: 100 characters and more
DocScan ==
    JoinLines(<< <<"B","O","L"," ","N","O",":"," ","C","3">>, <<"S","H","I","P","P","E","R",":"," ","S","e","a"," ","C","o">>, <<"1","2"," ","D","o","c","k"," ","R","d">>,
                 <<"C","O","N","S","I","G","N","E","E",":"," ","D","e","e">>, <<"V","E","S","S","E","L",":"," ","M","V"," ","C">>, <<"V","O","Y",":"," ","9">>,
                 <<"W","E","I","G","H","T",":"," ","5","0"," ","K","G">>, <<"Q","T","Y",":"," ","7">>, <<"T","E","R","M","S",":"," ","c","o","l","l","e","c","t">>,
                 <<"D","E","S","C","R","I","P","T","I","O","N"," ","O","F"," ","G","O","O","D","S",":"," ","S","t","e","e","l">>, <<"P","i","p","e","s">> >>) \o <<NL>>

\* a grid with a missing cell, an int column and two description columns (the
\* int column that is read has no missing cell, so it keeps its int dtype)
Table2 ==
    << [name |-> <<"Q","t","y">>, cells |-> <<IntCell(12), IntCell(305), NaN>>],
       [name |-> <<"D","e","s","c","r","i","p","t","i","o","n"," ","o","f"," ","G","o","o","d","s">>,
        cells |-> <<StrCell(<<"S","t","e","e","l">>), NaN, StrCell(<<"P","i","p","e","s">>)>>],
       [name |-> <<"C","o","m","m","o","d","i","t","y"," ","c","o","d","e">>, cells |-> <<IntCell(7), IntCell(8), IntCell(9)>>] >>

\* a grid without a description column
Table3 == << [name |-> <<"W","e","i","g","h","t">>, cells |-> <<StrCell(<<"1"," ","K","G">>)>>] >>

\* str(e) of the exceptions raised
Messages == {<<"b","o","o","m">>, <<>>}

NoFault == [step |-> 0, msg |-> <<>>]

\* which statement of the try block raises, and with which text
Faults ==
    {NoFault} \cup {[step |-> k, msg |-> m] : k \in 1..Len(StepFields), m \in Messages}

\* most calls of extract_all_fields running at the same time
MaxCallers == 2

\* a call that has not started: its arguments, its position (0: not entered,
\* k: before the k-th statement), the local bol_data, the returned record,
\* and for reference, from its entry on, the record the call returns when it
\* runs alone
NewCall(text, tabs, filename, fault) ==
    [text |-> text, tabs |-> tabs, filename |-> filename, fault |-> fault,
     at |-> 0, rec |-> BOLData, ret |-> BOLData, overlapped |-> FALSE,
     alone |-> BOLData]

AtReturn == Len(StepFields) + 1

AtEnd == Len(StepFields) + 2

\* a variant that keeps bol_data in an attribute of the shared extractor
frame_shared(t) == 1

\* where call t keeps its bol_data: a local of that call
frame_of(t) == t

\* some other call is between its entry and its return
OthersActive(t) == \E u \in DOMAIN calls \ {t} : calls[u].at \in 1..AtReturn

\* bol_data = BOLData(); bol_data.filename = filename
Enter(t) ==
    /\ calls[t].at = 0
    /\ calls' = [calls EXCEPT ![t].at = 1,
                              ![t].alone =
                                   extract_all_fields(calls[t].text, calls[t].tabs,
                                                      calls[t].filename, calls[t].fault),
                              ![frame_of(t)].rec =
                                   [BOLData EXCEPT !.filename = calls[t].filename]]

\* one statement of the try block, or the handler when it raises
Statement(t) ==
    /\ calls[t].at \in 1..Len(StepFields)
    /\ calls' =
         [calls EXCEPT
            ![t].overlapped = @ \/ OthersActive(t),
            ![t].at = IF calls[t].fault.step = calls[t].at THEN AtReturn ELSE @ + 1,
            ![frame_of(t)].rec =
                IF calls[t].fault.step = calls[t].at
                THEN extraction_error(calls[frame_of(t)].rec, calls[t].fault.msg)
                ELSE run_step(calls[frame_of(t)].rec, calls[t].at,
                              calls[t].text, calls[t].tabs)]

\* return bol_data
Return(t) ==
    /\ calls[t].at = AtReturn
    /\ calls' = [calls EXCEPT ![t].at = AtEnd,
                              ![t].ret = calls[frame_of(t)].rec]

CallStep ==
    /\ \E t \in DOMAIN calls : Enter(t) \/ Statement(t) \/ Return(t)
    /\ UNCHANGED <<catalog, grids, ncalls, files, cur, bpc, bol_data, results,
                   faults>>
    /\ UNCHANGED pdfvars
    /\ UNCHANGED fnvars
    /\ UNCHANGED ocr_enabled

\* everything but the calls is idle
CallsOnly ==
    /\ PdfIdle
    /\ FnIdle
    /\ catalog = patterns
    /\ grids = <<>>
    /\ ncalls = 0
    /\ files = <<>>
    /\ cur = 0
    /\ bpc = "none"
    /\ bol_data = <<>>
    /\ results = <<>>
    /\ faults = <<>>
    /\ ocr_enabled = TRUE

\* one call, any document, any grids, any fault
InitFields ==
    /\ CallsOnly
    /\ \E text \in {DocFull, DocShort, DocScan},
          tabs \in {<<>>, <<Table1>>, <<Table3, Table2>>},
          fault \in Faults :
          calls = <<NewCall(text, tabs, "a.pdf", fault)>>

SpecFields == InitFields /\ [][CallStep]_vars

\* the documents the concurrent calls are made for
ConcCalls ==
    { NewCall(DocScan, <<>>, "a.pdf", NoFault),
      NewCall(DocShort, <<Table3, Table2>>, "b.pdf", [step |-> 5, msg |-> <<"b","o","o","m">>]) }

InitConc ==
    /\ CallsOnly
    /\ calls \in [1..MaxCallers -> ConcCalls]

SpecConc == InitConc /\ [][CallStep]_vars

(***************************************************************************)
(* process_single_pdf and process_batch_pdfs                               *)
(***************************************************************************)
\* filenames of the uploaded files, in upload order
FileNames == <<"a.pdf", "b.pdf", "c.pdf", "d.pdf">>

\* most files in a batch
MaxFiles == 2

\* what extract_text_pdfplumber can hand to process_pdf
NativeOutcomes ==
    {[text |-> t, success |-> Sufficient(t), escapes |-> FALSE] : t \in {DocFull, DocShort}}
        \cup {text_except(<<>>)}

\* what extract_text_ocr can hand to process_pdf
OcrOutcomes ==
    {[text |-> DocScan, success |-> Sufficient(DocScan), escapes |-> FALSE],
     ocr_except(<<>>)}

\* extract_all_fields of the batch: no statement raises, or one does
BatchFaults ==
    {NoFault, [step |-> 3, msg |-> <<"b","o","o","m">>]}

\* what happened to a file: which call raised (where), at which statement and
\* with which text, and the text and grids the fields were extracted from
Outcome(where, fault, text, tabs) ==
    [where |-> where, step |-> fault.step, msg |-> fault.msg,
     text |-> text, tabs |-> tabs]

InitBatch ==
    /\ PdfIdle
    /\ FnIdle
    /\ catalog = patterns
    /\ grids = <<>>
    /\ calls = <<>>
    /\ ncalls = 0
    /\ files \in {[i \in 1..n |-> FileNames[i]] : n \in 0..MaxFiles}
    /\ cur = 1
    /\ bpc = "loop"
    /\ bol_data = <<>>
    /\ results = <<>>
    /\ faults = <<>>
    /\ ocr_enabled = TRUE

\* for i, (pdf_file, filename) in enumerate(files): process_single_pdf is entered
NextFile ==
    /\ bpc = "loop"
    /\ cur <= Len(files)
    /\ bpc' = "process_pdf"
    /\ result' = NoResult
    /\ tables' = <<>>
    /\ bol_data' = <<>>
    /\ UNCHANGED <<catalog, grids, calls, ncalls, files, cur, results, faults>>
    /\ UNCHANGED <<pc, npages, page, text_acc, ocr_acc, native_text, text_success,
                   native_conf, ocr_text, ocr_success, text_calls, ocr_calls,
                   raised, escaped>>
    /\ UNCHANGED fnvars
    /\ UNCHANGED ocr_enabled

\* the loop is exhausted: return results
BatchDone ==
    /\ bpc = "loop"
    /\ cur > Len(files)
    /\ bpc' = "end"
    /\ UNCHANGED <<catalog, grids, calls, ncalls, files, cur, bol_data, results,
                   faults>>
    /\ UNCHANGED pdfvars
    /\ UNCHANGED fnvars
    /\ UNCHANGED ocr_enabled

\* text_content, extraction_method, confidence = self.pdf_processor.process_pdf(...)
\* or the call raises and the handler of process_single_pdf builds the record
BatchProcessPdf ==
    /\ bpc = "process_pdf"
    /\ \/ \E m \in Messages :
            /\ bol_data' = processing_error(files[cur], m)
            /\ faults' = Append(faults, Outcome("process_pdf", [step |-> 0, msg |-> m],
                                                <<>>, <<>>))
            /\ bpc' = "return"
            /\ UNCHANGED result
       \/ \E n \in NativeOutcomes, o \in OcrOutcomes :
            /\ result' = process_pdf(n, o)
            /\ bpc' = "extract_tables"
            /\ UNCHANGED <<bol_data, faults>>
    /\ UNCHANGED <<catalog, grids, calls, ncalls, files, cur, results>>
    /\ UNCHANGED <<pc, npages, page, text_acc, ocr_acc, native_text, text_success,
                   native_conf, ocr_text, ocr_success, text_calls, ocr_calls,
                   raised, escaped, tables>>
    /\ UNCHANGED fnvars
    /\ UNCHANGED ocr_enabled

\* tables = self.table_parser.extract_tables(pdf_file)
BatchExtractTables ==
    /\ bpc = "extract_tables"
    /\ \E o \in TableOutcomes :
            tables' = IF o.k = "raise" THEN tables_except(o.v).tables ELSE o.v
    /\ bpc' = "extract_all_fields"
    /\ UNCHANGED <<catalog, grids, calls, ncalls, files, cur, bol_data, results,
                   faults>>
    /\ UNCHANGED <<pc, npages, page, text_acc, ocr_acc, native_text, text_success,
                   native_conf, ocr_text, ocr_success, result, text_calls,
                   ocr_calls, raised, escaped>>
    /\ UNCHANGED fnvars
    /\ UNCHANGED ocr_enabled

\* bol_data = self.data_extractor.extract_all_fields(text_content, tables, filename)
BatchExtractAllFields ==
    /\ bpc = "extract_all_fields"
    /\ \E fault \in BatchFaults :
            /\ bol_data' = extract_all_fields(result[1], tables, files[cur], fault)
            /\ faults' = Append(faults,
                                Outcome(IF fault.step = 0 THEN "none"
                                        ELSE "extract_all_fields",
                                        fault, result[1], tables))
    /\ bpc' = "labels"
    /\ UNCHANGED <<catalog, grids, calls, ncalls, files, cur, results>>
    /\ UNCHANGED pdfvars
    /\ UNCHANGED fnvars
    /\ UNCHANGED ocr_enabled

\* bol_data.extraction_method = extraction_method
\* bol_data.extraction_confidence = confidence
SetLabels ==
    /\ bpc = "labels"
    /\ bol_data' = labelled(bol_data, result[2], result[3])
    /\ bpc' = "return"
    /\ UNCHANGED <<catalog, grids, calls, ncalls, files, cur, results, faults>>
    /\ UNCHANGED pdfvars
    /\ UNCHANGED fnvars
    /\ UNCHANGED ocr_enabled

\* process_single_pdf returns bol_data; results.append(bol_data)
AppendResult ==
    /\ bpc = "return"
    /\ results' = Append(results, bol_data)
    /\ cur' = cur + 1
    /\ bpc' = "loop"
    /\ UNCHANGED <<catalog, grids, calls, ncalls, files, bol_data, faults>>
    /\ UNCHANGED pdfvars
    /\ UNCHANGED fnvars
    /\ UNCHANGED ocr_enabled

NextBatch ==
    \/ NextFile
    \/ BatchDone
    \/ BatchProcessPdf
    \/ BatchExtractTables
    \/ BatchExtractAllFields
    \/ SetLabels
    \/ AppendResult

SpecBatch == InitBatch /\ [][NextBatch]_vars

(***************************************************************************)
(* ExcelExporter: the data sheet and the summary sheet                     *)
(***************************************************************************)
\* most records in an exported list
MaxRecords == 2

\* the characters of an extraction_method label, for the 'in' test
MethodChars(method) ==
    CASE method = "text" -> <<"t","e","x","t">>
      [] method = "ocr" -> <<"o","c","r">>
      [] method = "text_fallback" -> <<"t","e","x","t","_","f","a","l","l","b","a","c","k">>
      [] method = "" -> <<>>

\* df[self.column_order]: one row per record, the 22 attributes of the record
create_dataframe(bol_data_list) ==
    [i \in 1..Len(bol_data_list) |->
        [c \in DOMAIN BOLData |-> bol_data_list[i][c]]]

\* x.extraction_method == 'text'
is_text_based(x) == x.extraction_method = "text"

\* a variant that takes every method but 'text' as OCR
is_ocr_based_not_text(x) == x.extraction_method # "text"

\* 'ocr' in x.extraction_method
is_ocr_based(x) == Contains(MethodChars(x.extraction_method), <<"o","c","r">>)

\* the Count column of summary_data, by metric: len([x for x in bol_data_list if ...])
summary_data(bol_data_list) ==
    LET idx == 1..Len(bol_data_list)
        x == bol_data_list
    IN [total |-> Len(bol_data_list),
        successful |-> Cardinality({i \in idx : ~x[i].extraction_failed}),
        failed |-> Cardinality({i \in idx : x[i].extraction_failed}),
        text_based |-> Cardinality({i \in idx : is_text_based(x[i])}),
        ocr_based |-> Cardinality({i \in idx : is_ocr_based(x[i])}),
        high |-> Cardinality({i \in idx : x[i].extraction_confidence = "high"}),
        medium |-> Cardinality({i \in idx : x[i].extraction_confidence = "medium"}),
        low |-> Cardinality({i \in idx : x[i].extraction_confidence = "low"})]

\* the records process_single_pdf can return, by their metadata
ExportRecords ==
    {[BOLData EXCEPT !.filename = "a.pdf",
                     !.extraction_method = m,
                     !.extraction_confidence = c,
                     !.extraction_failed = f] :
        m \in {"text", "ocr", "text_fallback", ""},
        c \in {"high", "medium", "low"},
        f \in BOOLEAN}

\* render_results exports st.session_state.processed_data when it is not empty
InitExport ==
    /\ PdfIdle
    /\ inp = <<>>
    /\ field = "none"
    /\ outp = <<>>
    /\ fpc = "in"
    /\ catalog = patterns
    /\ grids = <<>>
    /\ calls = <<>>
    /\ ncalls = 0
    /\ files = <<>>
    /\ cur = 0
    /\ bpc = "none"
    /\ bol_data = <<>>
    /\ results \in UNION {[1..n -> ExportRecords] : n \in 1..MaxRecords}
    /\ faults = <<>>
    /\ ocr_enabled = TRUE

\* export_to_excel(bol_data_list): the BOL_Data sheet and the Processing_Summary sheet
ExportToExcel ==
    /\ fpc = "in"
    /\ outp' = [BOL_Data |-> create_dataframe(results),
                Processing_Summary |-> summary_data(results)]
    /\ fpc' = "out"
    /\ UNCHANGED <<inp, field>>
    /\ UNCHANGED pdfvars
    /\ UNCHANGED appvars

NextExport == ExportToExcel

SpecExport == InitExport /\ [][NextExport]_vars

(***************************************************************************)
(* What the calls leave of the pattern catalog and of the caller's grids   *)
(***************************************************************************)
\* most calls made in a row on the shared instances
MaxCalls == 2

\* a variant of the lookup that inserts the default for a missing key
patterns_after_setdefault(cat, field_type) ==
    [k \in DOMAIN cat \cup {field_type} |-> IF k \in DOMAIN cat THEN cat[k] ELSE <<>>]

\* self.patterns after self.patterns.get(field_type, []): get inserts nothing
patterns_after_get(cat, field_type) == cat

RECURSIVE patterns_after_gets(_, _)
\* self.patterns after the lookups of the field types of a list, in order
patterns_after_gets(cat, field_types) ==
    IF field_types = <<>> THEN cat
    ELSE patterns_after_gets(patterns_after_get(cat, Head(field_types)),
                             Tail(field_types))

\* the catalog keys the statements of extract_all_fields look up
StepLookups ==
    << <<"bol_number">>,
       <<"shipper", "consignee", "notify_party">>,
       <<"vessel", "voyage">>,
       <<"port_of_load", "port_of_discharge">>,
       <<"date_patterns">>,
       <<"weight_patterns", "quantity_patterns">>,
       <<"freight_terms">>,
       <<>> >>

RECURSIVE LookupsBefore(_)
\* the keys looked up by the statements before the k-th
LookupsBefore(k) ==
    IF k <= 1 THEN <<>> ELSE LookupsBefore(k - 1) \o StepLookups[k - 1]

\* a column after table[col].dropna().astype(str).tolist(): dropna, astype and
\* tolist build new objects, the column keeps its cells
column_after_read(col) == col

\* the grids after parse_cargo_description_table has read them
tables_after_parse(tabs) ==
    [t \in 1..Len(tabs) |->
        [k \in 1..Len(tabs[t]) |->
            IF is_description_column(tabs[t][k])
            THEN column_after_read(tabs[t][k]) ELSE tabs[t][k]]]

\* the statements a call of extract_all_fields runs: all eight, or those
\* before the one that raises
StepsRun(fault) == IF fault.step = 0 THEN Len(StepFields) + 1 ELSE fault.step

\* the grid lists a caller holds
GridLists == {<<>>, <<Table1>>, <<Table3, Table2>>}

\* field types asked for: the keys of the catalog and one that is none
AskedTypes == DOMAIN patterns \cup {"unknown"}

InitFrame ==
    /\ PdfIdle
    /\ FnIdle
    /\ catalog = patterns
    /\ grids \in {[passed |-> g, now |-> g] : g \in GridLists}
    /\ calls = <<>>
    /\ ncalls = 0
    /\ files = <<>>
    /\ cur = 0
    /\ bpc = "none"
    /\ bol_data = <<>>
    /\ results = <<>>
    /\ faults = <<>>
    /\ ocr_enabled = TRUE

\* self.patterns.get_patterns(field_type)
CallGetPatterns ==
    /\ ncalls < MaxCalls
    /\ \E field_type \in AskedTypes :
          /\ outp' = get_patterns(field_type)
          /\ catalog' = patterns_after_get(catalog, field_type)
          /\ field' = field_type
    /\ inp' = <<>>
    /\ calls' = Append(calls, [op |-> "get_patterns", failed |-> FALSE])
    /\ ncalls' = ncalls + 1
    /\ UNCHANGED <<fpc, grids, files, cur, bpc, bol_data, results, faults>>
    /\ UNCHANGED pdfvars
    /\ UNCHANGED ocr_enabled

\* self.extract_field(text, field_type)
CallExtractField ==
    /\ ncalls < MaxCalls
    /\ \E field_type \in ScalarFields \cup {"unknown"}, text \in {DocFull, DocShort} :
          /\ outp' = extract_field(text, field_type)
          /\ catalog' = patterns_after_get(catalog, field_type)
          /\ field' = field_type
          /\ inp' = text
    /\ calls' = Append(calls, [op |-> "extract_field", failed |-> FALSE])
    /\ ncalls' = ncalls + 1
    /\ UNCHANGED <<fpc, grids, files, cur, bpc, bol_data, results, faults>>
    /\ UNCHANGED pdfvars
    /\ UNCHANGED ocr_enabled

\* self.table_parser.parse_cargo_description_table(tables)
CallParse ==
    /\ ncalls < MaxCalls
    /\ outp' = parse_cargo_description_table(grids.now)
    /\ grids' = [grids EXCEPT !.now = tables_after_parse(grids.now)]
    /\ field' = "none"
    /\ inp' = <<>>
    /\ calls' = Append(calls, [op |-> "parse_cargo_description_table", failed |-> FALSE])
    /\ ncalls' = ncalls + 1
    /\ UNCHANGED <<fpc, catalog, files, cur, bpc, bol_data, results, faults>>
    /\ UNCHANGED pdfvars
    /\ UNCHANGED ocr_enabled

\* self.data_extractor.extract_all_fields(text, tables, filename), with or
\* without a statement that raises
CallExtractAllFields ==
    /\ ncalls < MaxCalls
    /\ \E text \in {DocFull, DocScan}, fault \in BatchFaults \cup {[step |-> 8, msg |-> <<>>]} :
          /\ outp' = extract_all_fields(text, grids.now, "a.pdf", fault)
          /\ catalog' = patterns_after_gets(catalog, LookupsBefore(StepsRun(fault)))
          /\ grids' = [grids EXCEPT !.now =
                          IF fault.step = 0 /\ grids.now # <<>>
                          THEN tables_after_parse(grids.now) ELSE grids.now]
          /\ inp' = text
          /\ calls' = Append(calls, [op |-> "extract_all_fields", failed |-> fault.step > 0])
    /\ field' = "none"
    /\ ncalls' = ncalls + 1
    /\ UNCHANGED <<fpc, files, cur, bpc, bol_data, results, faults>>
    /\ UNCHANGED pdfvars
    /\ UNCHANGED ocr_enabled

NextFrame ==
    \/ CallGetPatterns
    \/ CallExtractField
    \/ CallParse
    \/ CallExtractAllFields

SpecFrame == InitFrame /\ [][NextFrame]_vars

(***************************************************************************)
(* Properties of extract_weights_quantities, extract_freight_terms and of  *)
(* the party sections                                                      *)
(***************************************************************************)
\* the values re.findall gives for the k-th weight pattern
WeightValues(k, text) == re_findall(get_patterns("weight_patterns")[k], text)

\* C11: weight routing.  With both a GROSS WEIGHT and a NET WEIGHT value the
\* gross weight is the first GROSS WEIGHT value and the net weight the first
\* NET WEIGHT value; with a generic WEIGHT value only, the gross weight is that
\* value and the net weight is empty; a generic value never replaces a gross
\* weight taken from a GROSS WEIGHT label and never fills the net weight.
C11_WeightRouting ==
    (fpc = "out" /\ field = "weights") =>
        LET g == WeightValues(1, inp)
            n == WeightValues(2, inp)
            w == WeightValues(3, inp)
        IN /\ (g # <<>> /\ n # <<>>) => (outp[1] = g[1] /\ outp[2] = n[1])
           /\ (g = <<>> /\ n = <<>> /\ w # <<>>) =>
                 (outp[1] = w[1] /\ outp[2] = <<>>)
           /\ g # <<>> => outp[1] = g[1]
           /\ n = <<>> => outp[2] = <<>>

\* C11 witness: a text with a GROSS WEIGHT and a NET WEIGHT value whose first
\* generic WEIGHT value is a third one was routed
C11_Witness ==
    /\ fpc = "out"
    /\ field = "weights"
    /\ WeightValues(1, inp) # <<>>
    /\ WeightValues(2, inp) # <<>>
    /\ WeightValues(3, inp) # <<>>
    /\ WeightValues(3, inp)[1] # WeightValues(1, inp)[1]
    /\ outp[1] = WeightValues(1, inp)[1]
    /\ outp[2] = WeightValues(2, inp)[1]

\* C12: for a text with the line 'PACKAGES: 100 CTNS' the quantity is the
\* number together with its unit word, '100 CTNS'.
C12_QuantityWithUnit ==
    (/\ fpc = "out"
     /\ field = "weights"
     /\ Contains(inp, <<"P","A","C","K","A","G","E","S",":"," ","1","0","0"," ","C","T","N","S">>))
    => outp[3] = <<"1","0","0"," ","C","T","N","S">>

\* C19: extract_freight_terms returns the empty string or one of the upper-case
\* tokens PREPAID, COLLECT, PAYABLE.
C19_UpperCaseToken ==
    (fpc = "out" /\ field = "freight_terms") =>
        outp \in {<<>>, <<"P","R","E","P","A","I","D">>, <<"C","O","L","L","E","C","T">>, <<"P","A","Y","A","B","L","E">>}

\* where sub first occurs in s (1-based), 0 when it does not
Find(s, sub) ==
    IF Contains(s, sub)
    THEN CHOOSE i \in 1..Len(s) :
            /\ i + Len(sub) - 1 <= Len(s)
            /\ Slice(s, i - 1, i - 1 + Len(sub)) = sub
            /\ \A j \in 1..(i - 1) :
                  j + Len(sub) - 1 > Len(s) \/ Slice(s, j - 1, j - 1 + Len(sub)) # sub
    ELSE 0

PartyLabels == <<<<"S","H","I","P","P","E","R",":">>, <<"C","O","N","S","I","G","N","E","E",":">>, <<"N","O","T","I","F","Y"," ","P","A","R","T","Y",":">>>>

SectionLabels == {PartyLabels[p] : p \in 1..3} \cup {<<"V","E","S","S","E","L",":">>}

\* the p-th party's label is the last section label of the text and something
\* is written after it
RunsToEnd(p, text) ==
    /\ Contains(text, PartyLabels[p])
    /\ \A l \in SectionLabels \ {PartyLabels[p]} :
          Find(text, l) < Find(text, PartyLabels[p])
    /\ Strip(Slice(text, Find(text, PartyLabels[p]) - 1 + Len(PartyLabels[p]),
                   Len(text))) # <<>>

\* C20: a party section that runs to the end of the text is extracted with a
\* non-empty name, and a party whose label is absent has an empty name and an
\* empty address.
C20_BlockToEndExtracted ==
    (fpc = "out" /\ field = "parties") =>
        \A p \in 1..3 :
            /\ RunsToEnd(p, inp) => outp[2 * p - 1] # <<>>
            /\ ~Contains(inp, PartyLabels[p]) =>
                  (outp[2 * p - 1] = <<>> /\ outp[2 * p] = <<>>)

(***************************************************************************)
(* Properties of extract_all_fields                                        *)
(***************************************************************************)
CallReturned(t) == calls[t].at = AtEnd

\* C13: when the k-th extraction step raises, extract_all_fields returns a
\* record with the filename set, extraction_failed true and processing_notes
\* non-empty and containing the exception's description; the fields of the
\* steps before k hold their extracted values and the fields of step k and of
\* the later steps hold their defaults.
C13_FailureContained ==
    \A t \in DOMAIN calls :
        (CallReturned(t) /\ calls[t].fault.step > 0) =>
            LET c == calls[t]
                k == c.fault.step
            IN /\ c.ret.filename = c.filename
               /\ c.ret.extraction_failed
               /\ c.ret.processing_notes # <<>>
               /\ Contains(c.ret.processing_notes, c.fault.msg)
               /\ \A j \in 1..(k - 1) : \A i \in 1..Len(StepFields[j]) :
                     c.ret[StepFields[j][i]] = StepValues(j, c.text, c.tabs)[i]
               /\ \A j \in k..Len(StepFields) : \A i \in 1..Len(StepFields[j]) :
                     c.ret[StepFields[j][i]] = BOLData[StepFields[j][i]]

\* C13 witness: the ports step raised on a document that has ports; the B/L
\* number, the shipper and the vessel extracted before it are in the record,
\* the ports and the date are not
C13_Witness ==
    \E t \in DOMAIN calls :
        /\ CallReturned(t)
        /\ calls[t].fault.step = 4
        /\ calls[t].ret.extraction_failed
        /\ calls[t].ret.bol_number # <<>>
        /\ calls[t].ret.shipper_name # <<>>
        /\ calls[t].ret.vessel_name # <<>>
        /\ extract_ports(calls[t].text)[1] # <<>>
        /\ calls[t].ret.port_of_load = <<>>
        /\ calls[t].ret.date_of_issue = <<>>

\* C17: whatever the interleaving of the calls that share the extractor, each
\* call returns the record the same call gives when it runs alone.
C17_CallsIndependent ==
    \A t \in DOMAIN calls :
        CallReturned(t) =>
            calls[t].ret = calls[t].alone

\* C17 witness: a call returned its record after running statements while a
\* call for another document was between its entry and its return
C17_Witness ==
    \E t, u \in DOMAIN calls :
        /\ t # u
        /\ calls[t].text # calls[u].text
        /\ CallReturned(t)
        /\ calls[t].overlapped
        /\ calls[u].at \in 2..Len(StepFields)
        /\ calls[t].ret.bol_number # <<>>

(***************************************************************************)
(* Properties of process_single_pdf and process_batch_pdfs                 *)
(***************************************************************************)
\* the attributes the extraction steps assign
ExtractedFields ==
    UNION {{StepFields[j][i] : i \in 1..Len(StepFields[j])} : j \in 1..Len(StepFields)}

\* the i-th record is flagged and its notes hold the exception's description
FailedRecord(i) ==
    /\ results[i].filename = files[i]
    /\ results[i].extraction_failed
    /\ Contains(results[i].processing_notes, faults[i].msg)

C15_LabelsInEnum ==
    bpc = "return" =>
        /\ bol_data.extraction_method \in {"text", "ocr", "text_fallback"}
        /\ bol_data.extraction_confidence \in {"high", "medium", "low"}

(***************************************************************************)
(* Properties of the export summary                                        *)
(***************************************************************************)
RECURSIVE Tally(_, _, _)
\* how many records of the list have a value of S in attribute a
Tally(list, a, S) ==
    IF list = <<>> THEN 0
    ELSE (IF list[1][a] \in S THEN 1 ELSE 0) + Tally(Tail(list), a, S)

C18_FrameUnchanged ==
    /\ DOMAIN catalog = DOMAIN patterns
    /\ \A k \in DOMAIN patterns : catalog[k] = patterns[k]
    /\ grids.now = grids.passed

\* C18 witness: an extract_all_fields call whose statement raised was followed
\* by a lookup of a field type the catalog does not have, which returned the
\* empty list; the caller holds a grid with missing cells in a description
\* column
C18_Witness ==
    /\ Len(calls) = 2
    /\ calls[1].op = "extract_all_fields"
    /\ calls[1].failed
    /\ calls[2].op = "get_patterns"
    /\ field = "unknown"
    /\ outp = <<>>
    /\ grids.passed = <<Table3, Table2>>
    /\ \E k \in 1..Len(Table2) :
          is_description_column(Table2[k]) /\ \E c \in 1..Len(Table2[k].cells) : Table2[k].cells[c] = NaN

(***************************************************************************)
(* Calls of the collaborators in process_pdf, and what the label names     *)
(***************************************************************************)
\* C26: extract_text_pdfplumber is invoked exactly once and before any OCR
\* call; when the native extraction is unsuccessful or the confidence of the
\* native text is "low", extract_text_ocr is invoked exactly once, otherwise
\* not at all; it is never invoked more than once for a document.
C26_CallOrder ==
    /\ text_calls <= 1
    /\ ocr_calls <= 1
    /\ pc # "start" => text_calls = 1
    /\ ocr_calls = 1 => (text_calls = 1 /\ pc \notin {"start", "text_page"})
    /\ pc \in {"ocr_open", "ocr_page"} => (~text_success \/ native_conf = "low")
    /\ Returned => (ocr_calls = 1 <=> (~text_success \/ native_conf = "low"))

\* C26 witness: the native extraction was successful, its text was assessed
\* "low", and OCR was invoked once after it
C26_Witness ==
    /\ Returned
    /\ text_success
    /\ native_conf = "low"
    /\ text_calls = 1
    /\ ocr_calls = 1

\* C28: method "text" or "text_fallback" means the returned text is the native
\* text, method "ocr" means it is the OCR text and its trimmed length is >=
\* min_text_threshold, and method "text" means OCR was not attempted.
C28_LabelNamesSource ==
    Returned =>
        /\ result[2] \in {"text", "text_fallback"} => result[1] = native_text
        /\ result[2] = "ocr" =>
              (result[1] = ocr_text /\ TrimLen(ocr_text) >= min_text_threshold)
        /\ result[2] = "text" => ocr_calls = 0

\* C29: with the 'Enable OCR Fallback' option switched off, extract_text_ocr
\* is not invoked and the returned method is not "ocr".
C29_OcrOffNoOcr ==
    ~ocr_enabled =>
        /\ ocr_calls = 0
        /\ Returned => result[2] # "ocr"

(***************************************************************************)
(* Properties of extract_parties, extract_dates, the quantity loop and     *)
(* extract_field on captures that are empty or clean to nothing            *)
(***************************************************************************)
\* C21: a party block's capture ends at the first blank line after its label:
\* the captured block holds no blank line, and with a remark after a blank line
\* nothing of the remark is in the party's name or address.
C21_BlockEndsAtBlankLine ==
    (fpc = "out" /\ field = "parties") =>
        \A p \in 1..3 :
            /\ ~Contains(BlockFrom(PartyFields[p], 1, inp), <<NL, NL>>)
            /\ ~Contains(outp[2 * p - 1], <<"r","e","m","a","r","k","s">>)
            /\ ~Contains(outp[2 * p], <<"r","e","m","a","r","k","s">>)

\* the dates of the k-th shape in the text, in text order
DateValues(k, text) == re_findall(get_patterns("date_patterns")[k], text)

\* C22: extract_dates returns the first occurrence in text order of the
\* highest-priority date shape that occurs in the text, also when a date of a
\* lower-priority shape stands earlier in the text; the result is empty iff no
\* shape occurs.
C22_HighestShapeFirst ==
    (fpc = "out" /\ field = "dates") =>
        /\ \A k \in 1..Len(get_patterns("date_patterns")) :
              (/\ DateValues(k, inp) # <<>>
               /\ \A j \in 1..(k - 1) : DateValues(j, inp) = <<>>)
              => /\ outp = DateValues(k, inp)[1]
                 /\ Contains(inp, outp)
                 /\ \A v \in 1..Len(DateValues(k, inp)) :
                       Find(inp, outp) <= Find(inp, DateValues(k, inp)[v])
        /\ outp = <<>> <=>
              \A k \in 1..Len(get_patterns("date_patterns")) : DateValues(k, inp) = <<>>

\* C22 witness: a 'D Mon Y' date stands before the numeric date that was
\* returned
C22_Witness ==
    /\ fpc = "out"
    /\ field = "dates"
    /\ DateValues(1, inp) # <<>>
    /\ DateValues(2, inp) # <<>>
    /\ Find(inp, DateValues(2, inp)[1]) < Find(inp, DateValues(1, inp)[1])
    /\ outp = DateValues(1, inp)[1]

\* the k-th quantity pattern matches somewhere in the text
QuantityMatches(k, text) == re_search(get_patterns("quantity_patterns")[k], text).ok

\* the stripped group of the k-th quantity pattern's match
QuantityValue(k, text) ==
    Strip(Group1(re_search(get_patterns("quantity_patterns")[k], text), text))

PatternMatches(field_type, k, text) == re_search(get_patterns(field_type)[k], text).ok

\* C25: a pattern that matches with a capture that is empty after trimming
\* does not end the search of extract_field: the result is the cleaned capture
\* of the first later pattern with a non-empty capture, or the empty string
\* when there is none; an unknown field type gives the empty string.
C25_EmptyCaptureFallsThrough ==
    (fpc = "out" /\ field \in ScalarFields \cup {"unknown"}) =>
        /\ field = "unknown" => outp = <<>>
        /\ \A k \in 1..Len(get_patterns(field)) :
              (/\ PatternMatches(field, k, inp)
               /\ \A h \in 1..k : Capture1(field, h, inp) = <<>>)
              => /\ (\A j \in (k + 1)..Len(get_patterns(field)) :
                        Capture1(field, j, inp) = <<>>) => outp = <<>>
                 /\ \A j \in (k + 1)..Len(get_patterns(field)) :
                       (/\ Capture1(field, j, inp) # <<>>
                        /\ \A h \in (k + 1)..(j - 1) : Capture1(field, h, inp) = <<>>)
                       => outp = clean_field_data(Capture1(field, j, inp))

\* C25 witness: the first pattern matched with a capture of blanks only and the
\* value of a later pattern was returned
C25_Witness ==
    /\ fpc = "out"
    /\ field \in ScalarFields
    /\ PatternMatches(field, 1, inp)
    /\ Capture1(field, 1, inp) = <<>>
    /\ \E j \in 2..Len(get_patterns(field)) :
          /\ Capture1(field, j, inp) # <<>>
          /\ outp = clean_field_data(Capture1(field, j, inp))
    /\ outp # <<>>

\* C27: with a NET WEIGHT value, no GROSS WEIGHT value and no stand-alone
\* WEIGHT value (every WEIGHT value is the one of a NET WEIGHT label), the net
\* weight is the NET WEIGHT value and the gross weight is empty.
C27_NetNeverGross ==
    (/\ fpc = "out"
     /\ field = "weights"
     /\ WeightValues(2, inp) # <<>>
     /\ WeightValues(1, inp) = <<>>
     /\ WeightValues(3, inp) = WeightValues(2, inp))
    => /\ outp[2] = WeightValues(2, inp)[1]
       /\ outp[1] = <<>>

\* C30: extract_field returns the empty string only if no pattern of the list
\* has a capture that is non-empty after trimming.
C30_EmptyOnlyWithoutCapture ==
    (fpc = "out" /\ field \in ScalarFields) =>
        ((\E k \in 1..Len(get_patterns(field)) : Capture1(field, k, inp) # <<>>)
            => outp # <<>>)


\* C24: once the cargo statement of extract_all_fields has run, the
\* description is the value parsed from the grids when grids were passed and
\* that value is not empty, whatever the text says; otherwise it is what the
\* goods patterns find in the text (nothing when none matches).
C24_TablesBeforeText ==
    \A t \in DOMAIN calls :
       (calls[t].at = AtEnd /\ calls[t].fault.step = 0) =>
          LET table_desc == IF calls[t].tabs = <<>> THEN <<>>
                            ELSE parse_cargo_description_table(calls[t].tabs)
              text_desc == GoodsFrom(goods_patterns, 1, calls[t].text, <<>>)
          IN /\ table_desc # <<>> =>
                  /\ calls[t].ret.description_of_goods = table_desc
                  /\ \A other \in {DocFull, DocShort, DocScan} :
                        cargo_description(other, calls[t].tabs) = table_desc
             /\ table_desc = <<>> => calls[t].ret.description_of_goods = text_desc

\* a returned call whose grids and text both hold a description, and differ
C24_Witness ==
    \E t \in DOMAIN calls :
       /\ calls[t].at = AtEnd
       /\ calls[t].fault.step = 0
       /\ calls[t].tabs = <<Table3, Table2>>
       /\ GoodsFrom(goods_patterns, 1, calls[t].text, <<>>) = <<"T","E","A">>
       /\ calls[t].ret.description_of_goods
            = <<"S","t","e","e","l",";"," ","P","i","p","e","s",";"," ","7",";"," ","8",";"," ","9">>

====
